---- MODULE Spec2Model ----
(***************************************************************************)
(* A model of the Sundew Solutions chatbot core: intent detection          *)
(* (utils/intent_detector.py), document ranking                            *)
(* (utils/document_processor.py) and the per-turn orchestration            *)
(* (app/chat_engine.py).                                                   *)
(*                                                                         *)
(* Text is a sequence of tokens.  A token is a one-character string        *)
(* wherever the code inspects characters (utterances, keywords); a fixed   *)
(* phrase the code only copies is a single token.  Scores, similarities    *)
(* and confidences are integers in hundredths (0.21 is 21, 1.0 is 100).    *)
(***************************************************************************)
EXTENDS Integers, Sequences, FiniteSets, TLC

VARIABLES
    \* detect_intents: its arguments, the classifier call it made, its result
    user_prompt, min_confidence, score_margin, classifier_call, detect_result,
    detect_pc,
    \* rank_documents: the corpus on disk, its arguments, the outcome of embedding
    \* the query, its result
    corpus, rank_folders, top_k, min_similarity, query_embedding, rank_result,
    rank_pc,
    \* ChatEngine.process_user_input: the stage the call is in, whether an LLM is
    \* configured (self.llm), the call's arguments, self.memory's messages (and,
    \* for the properties, what they were when the call began), what the RAG
    \* chain did, its raw response, the call's return value and how the call
    \* ended, what st.write/st.warning/st.error showed during the call, and the
    \* number of calls made
    pc, llm, user_input, user_data, memory, memory_at_call, backend_call,
    response, reply, call_outcome, displayed, turns,
    \* for the properties: every call of build_professional_prompt made so far
    \* (its arguments and the prompt it returned), and the stages the current
    \* call of process_user_input has gone through
    prompt_log, stage_log,
    \* the browser sessions of the app: st.session_state of each session (the
    \* stage its script run is in, the submitted prompt, the response, the chat
    \* messages, and the SessionManager's conversation and user_data), the
    \* memory of each ChatEngine object, and the number of lines in the
    \* analytics file all sessions append to
    sessions, engines, analytics_lines

detect_vars ==
    <<user_prompt, min_confidence, score_margin, classifier_call, detect_result,
      detect_pc>>

rank_vars ==
    <<corpus, rank_folders, top_k, min_similarity, query_embedding, rank_result,
      rank_pc>>

engine_vars ==
    <<pc, llm, user_input, user_data, memory, memory_at_call, backend_call,
      response, reply, call_outcome, displayed, turns, prompt_log, stage_log>>

session_vars == <<sessions, engines, analytics_lines>>

vars == <<detect_vars, rank_vars, engine_vars, session_vars>>

(***************************************************************************)
(* Bounds of the model                                                     *)
(***************************************************************************)
\* an utterance is the concatenation of at most MaxFrags fragments
MaxFrags == 2
\* number of leading classifier labels whose scores are chosen freely
MaxTop == 2
\* number of text files in the corpus
MaxFiles == 3
\* number of calls of process_user_input in a session
MaxTurns == 2
\* number of concurrent browser sessions, and of turns each of them takes
NumSessions == 2
MaxSessionTurns == 1
\* number of turns of the session whose whole stage flow is followed, and the
\* number of chat messages up to which its canned exchanges are added
MaxStageTurns == 2
MaxMessages == 3

(***************************************************************************)
(* Text helpers: str.lower() and the `in` substring test                   *)
(***************************************************************************)
UpperToLower ==
    [c \in {"A", "B", "C", "D", "E", "F", "G", "H", "I", "J", "K", "L", "M", "N",
            "O", "P", "Q", "R", "S", "T", "U", "V", "W", "X", "Y", "Z"} |->
        CASE c = "A" -> "a" [] c = "B" -> "b" [] c = "C" -> "c" [] c = "D" -> "d"
          [] c = "E" -> "e" [] c = "F" -> "f" [] c = "G" -> "g" [] c = "H" -> "h"
          [] c = "I" -> "i" [] c = "J" -> "j" [] c = "K" -> "k" [] c = "L" -> "l"
          [] c = "M" -> "m" [] c = "N" -> "n" [] c = "O" -> "o" [] c = "P" -> "p"
          [] c = "Q" -> "q" [] c = "R" -> "r" [] c = "S" -> "s" [] c = "T" -> "t"
          [] c = "U" -> "u" [] c = "V" -> "v" [] c = "W" -> "w" [] c = "X" -> "x"
          [] c = "Y" -> "y" [] c = "Z" -> "z"]

LowerChar(c) == IF c \in DOMAIN UpperToLower THEN UpperToLower[c] ELSE c

Lower(text) == [i \in 1..Len(text) |-> LowerChar(text[i])]

\* Python's `needle in haystack` on strings
Contains(haystack, needle) ==
    \/ needle = <<>>
    \/ \E i \in 1..(Len(haystack) - Len(needle) + 1) :
           /\ haystack[i] = needle[1]
           /\ SubSeq(haystack, i, i + Len(needle) - 1) = needle

\* str.strip(): leading and trailing whitespace removed
IsSpace(c) == c \in {" ", "\n", "\t", "\r"}

RECURSIVE StripLeft(_)
StripLeft(text) ==
    IF text # <<>> /\ IsSpace(Head(text)) THEN StripLeft(Tail(text)) ELSE text

RECURSIVE StripRight(_)
StripRight(text) ==
    IF text # <<>> /\ IsSpace(text[Len(text)])
    THEN StripRight(SubSeq(text, 1, Len(text) - 1))
    ELSE text

Strip(text) == StripRight(StripLeft(text))

RECURSIVE Concat(_)
Concat(seqs) == IF seqs = <<>> THEN <<>> ELSE Head(seqs) \o Concat(Tail(seqs))

(***************************************************************************)
(* Configuration (utils/config.py)                                         *)
(***************************************************************************)
categories ==
  << "general information about the company",
     "company blog posts",
     "career opportunities, vacancies, and recruitment",
     "case studies of past projects",
     "services offered by the company",
     "success stories and client achievements",
     "industry-specific expertise and domain knowledge",
     "company policy and disclaimers" >>

category_folders(category) ==
  CASE category = "general information about the company" -> "data/General/"
    [] category = "company blog posts" -> "data/Blog/"
    [] category = "career opportunities, vacancies, and recruitment" -> "data/Career and Vacancies/"
    [] category = "case studies of past projects" -> "data/Case Studies/"
    [] category = "services offered by the company" -> "data/Services/"
    [] category = "success stories and client achievements" -> "data/Success Stories/"
    [] category = "industry-specific expertise and domain knowledge" -> "data/Industry Expertise/"
    [] category = "company policy and disclaimers" -> "data/Policy and Disclaimer/"

\* the keyword table, in the order the dictionary is written (its iteration order)
category_keywords ==
  <<
    [category |-> "general information about the company",
     keywords |-> <<
       <<"a","b","o","u","t"," ","t","h","e"," ","c","o","m","p","a","n","y">>,
       <<"o","v","e","r","v","i","e","w">>,
       <<"m","i","s","s","i","o","n">>,
       <<"v","i","s","i","o","n">>,
       <<"c","u","l","t","u","r","e">>,
       <<"c","o","n","t","a","c","t">>,
       <<"e","m","a","i","l">>,
       <<"l","e","a","d","e","r","s","h","i","p">>,
       <<"c","e","o">>,
       <<"w","h","o"," ","w","e"," ","a","r","e">>,
       <<"c","o","m","p","a","n","y"," ","b","a","c","k","g","r","o","u","n","d">>
     >>],
    [category |-> "company blog posts",
     keywords |-> <<
       <<"b","l","o","g">>,
       <<"i","n","s","i","g","h","t","s">>,
       <<"a","r","t","i","c","l","e","s">>,
       <<"w","r","i","t","e","-","u","p">>
     >>],
    [category |-> "career opportunities, vacancies, and recruitment",
     keywords |-> <<
       <<"v","a","c","a","n","c","y">>,
       <<"v","a","c","a","n","c","i","e","s">>,
       <<"o","p","e","n","i","n","g","s">>,
       <<"j","o","b"," ","p","o","s","i","t","i","o","n">>,
       <<"j","o","b"," ","o","p","e","n","i","n","g">>,
       <<"h","i","r","i","n","g">>,
       <<"h","i","r","e">>,
       <<"j","o","b"," ","p","o","s","t">>,
       <<"r","e","c","r","u","i","t","m","e","n","t">>,
       <<"c","a","r","e","e","r">>,
       <<"c","a","r","e","e","r"," ","p","a","t","h">>,
       <<"o","p","p","o","r","t","u","n","i","t","i","e","s">>,
       <<"j","o","b"," ","o","p","p","o","r","t","u","n","i","t","i","e","s">>,
       <<"c","a","r","e","e","r"," ","g","r","o","w","t","h">>,
       <<"r","o","l","e","s"," ","a","v","a","i","l","a","b","l","e">>,
       <<"e","m","p","l","o","y","m","e","n","t">>,
       <<"w","o","r","k"," ","a","t">>
     >>],
    [category |-> "case studies of past projects",
     keywords |-> <<
       <<"c","a","s","e"," ","s","t","u","d","y">>,
       <<"c","a","s","e"," ","s","t","u","d","i","e","s">>,
       <<"p","r","o","j","e","c","t"," ","e","x","a","m","p","l","e">>,
       <<"p","r","o","j","e","c","t"," ","c","a","s","e">>,
       <<"r","e","a","l","-","w","o","r","l","d"," ","p","r","o","j","e","c","t">>
     >>],
    [category |-> "services offered by the company",
     keywords |-> <<
       <<"s","e","r","v","i","c","e","s">>,
       <<"s","o","l","u","t","i","o","n","s">>,
       <<"o","f","f","e","r","i","n","g","s">>,
       <<"w","h","a","t"," ","y","o","u"," ","p","r","o","v","i","d","e">>,
       <<"a","u","t","o","m","a","t","i","o","n"," ","s","e","r","v","i","c","e">>,
       <<"A","I"," ","s","e","r","v","i","c","e","s">>,
       <<"d","o","c","u","m","e","n","t"," ","p","r","o","c","e","s","s","i","n","g">>,
       <<"c","o","n","s","u","l","t","i","n","g"," ","s","e","r","v","i","c","e","s">>,
       <<"r","p","a"," ","s","e","r","v","i","c","e","s">>,
       <<"d","o","m","a","i","n"," ","k","n","o","w","l","e","d","g","e">>
     >>],
    [category |-> "success stories and client achievements",
     keywords |-> <<
       <<"s","u","c","c","e","s","s"," ","s","t","o","r","y">>,
       <<"c","l","i","e","n","t"," ","s","u","c","c","e","s","s">>,
       <<"t","e","s","t","i","m","o","n","i","a","l">>,
       <<"a","c","h","i","e","v","e","m","e","n","t">>,
       <<"r","e","s","u","l","t">>,
       <<"o","u","t","c","o","m","e">>,
       <<"b","e","n","e","f","i","t","s"," ","f","o","r"," ","c","l","i","e","n","t">>,
       <<"t","r","a","n","s","f","o","r","m","a","t","i","o","n">>
     >>],
    [category |-> "industry-specific expertise and domain knowledge",
     keywords |-> <<
       <<"i","n","d","u","s","t","r","y"," ","e","x","p","e","r","t","i","s","e">>,
       <<"d","o","m","a","i","n"," ","k","n","o","w","l","e","d","g","e">>,
       <<"h","e","a","l","t","h","c","a","r","e"," ","e","x","p","e","r","t","i","s","e">>,
       <<"i","n","s","u","r","a","n","c","e"," ","k","n","o","w","l","e","d","g","e">>,
       <<"f","i","n","a","n","c","e"," ","d","o","m","a","i","n">>,
       <<"l","o","g","i","s","t","i","c","s"," ","i","n","d","u","s","t","r","y">>,
       <<"b","a","n","k">>,
       <<"h","e","a","l","t","h">>,
       <<"m","e","d","i","a">>,
       <<"F","o","o","d">>,
       <<"b","e","v","e","r","a","g","e">>,
       <<"t","r","a","v","e","l">>,
       <<"h","o","s","p","i","t","a","l","i","t","y">>,
       <<"s","e","c","t","o","r","-","s","p","e","c","i","f","i","c"," ","k","n","o","w","l","e","d","g","e">>
     >>],
    [category |-> "company policy and disclaimers",
     keywords |-> <<
       <<"p","r","i","v","a","c","y"," ","p","o","l","i","c","y">>,
       <<"d","i","s","c","l","a","i","m","e","r">>,
       <<"t","e","r","m","s">>,
       <<"c","o","n","d","i","t","i","o","n","s">>,
       <<"l","e","g","a","l">>,
       <<"c","o","o","k","i","e"," ","p","o","l","i","c","y">>
     >>]
  >>

\* config['min_similarity_threshold'], the MIN_SIMILARITY default
DefaultMinSimilarity == 21
\* config['max_documents'], the MAX_DOCUMENTS default
DefaultMaxDocuments == 3
\* config['min_confidence'], the MIN_CONFIDENCE default
DefaultMinConfidence == 50
\* detect_intents' score_margin default
DefaultScoreMargin == 5
\* a confidence of 1.0
FullConfidence == 100

GeneralCategory == "general information about the company"

(***************************************************************************)
(* IntentDetector (utils/intent_detector.py)                               *)
(***************************************************************************)
\* FirstHit with the keyword compared as written, not lowered
FirstHit_keyword_not_lowered(prompt_lower, keywords) ==
    LET hits == {k \in 1..Len(keywords) : Contains(prompt_lower, keywords[k])}
    IN  IF hits = {} THEN 0 ELSE CHOOSE k \in hits : \A j \in hits : k <= j

\* index of the first keyword of the list that occurs in the lowered prompt,
\* 0 when none does: the inner loop of _detect_by_keywords with its break
FirstHit(prompt_lower, keywords) ==
    LET hits == {k \in 1..Len(keywords) : Contains(prompt_lower, Lower(keywords[k]))}
    IN  IF hits = {} THEN 0 ELSE CHOOSE k \in hits : \A j \in hits : k <= j

RECURSIVE KeywordMatchesFrom(_, _)
KeywordMatchesFrom(prompt_lower, i) ==
    IF i > Len(category_keywords) THEN <<>>
    ELSE LET entry == category_keywords[i]
             hit == FirstHit(prompt_lower, entry.keywords)
         IN  (IF hit = 0 THEN <<>>
              ELSE <<[category |-> entry.category,
                      keyword |-> entry.keywords[hit],
                      method |-> "keyword"]>>)
             \o KeywordMatchesFrom(prompt_lower, i + 1)

\* _detect_by_keywords leaving the category loop at the first match
detect_by_keywords_first_only(prompt) ==
    LET all == KeywordMatchesFrom(Lower(prompt), 1)
    IN  IF all = <<>> THEN <<>> ELSE <<Head(all)>>

detect_by_keywords(prompt) == KeywordMatchesFrom(Lower(prompt), 1)

CategoriesOf(details) == [i \in 1..Len(details) |-> details[i].category]
FoldersOf(details) == [i \in 1..Len(details) |-> category_folders(details[i].category)]

get_fallback_intent ==
    [method |-> "fallback",
     categories |-> <<GeneralCategory>>,
     folders |-> <<category_folders(GeneralCategory)>>,
     confidence |-> FullConfidence,
     details |-> <<[category |-> GeneralCategory, method |-> "fallback"]>>]

\* the selection without the margin filter
RECURSIVE SelectedFrom_margin_ignored(_, _, _, _)
SelectedFrom_margin_ignored(result, i, min_conf, margin) ==
    IF i > Len(result.labels) THEN <<>>
    ELSE (IF result.scores[i] >= min_conf
          THEN <<[category |-> result.labels[i],
                  confidence |-> result.scores[i],
                  method |-> "ml"]>>
          ELSE <<>>)
         \o SelectedFrom_margin_ignored(result, i + 1, min_conf, margin)

\* the labels of the classifier result that pass both filters, in result order
RECURSIVE SelectedFrom(_, _, _, _)
SelectedFrom(result, i, min_conf, margin) ==
    IF i > Len(result.labels) THEN <<>>
    ELSE (IF result.scores[i] >= min_conf /\ (result.scores[1] - result.scores[i]) <= margin
          THEN <<[category |-> result.labels[i],
                  confidence |-> result.scores[i],
                  method |-> "ml"]>>
          ELSE <<>>)
         \o SelectedFrom(result, i + 1, min_conf, margin)

\* an exception that leaves detect_intents (no path of the code produces one)
IntentException(error) ==
    [method |-> "exception", categories |-> <<>>, folders |-> <<>>,
     confidence |-> 0, details |-> <<error>>]

\* _detect_by_ml without its try/except: the classifier's exception propagates
detect_by_ml_unguarded(call, min_conf, margin) ==
    IF call.status = "raised" THEN IntentException(call.error)
    ELSE LET selected == SelectedFrom(call, 1, min_conf, margin)
         IN  [method |-> "ml",
              categories |-> CategoriesOf(selected),
              folders |-> FoldersOf(selected),
              confidence |-> call.scores[1],
              details |-> selected]

\* _detect_by_ml without the `if not selected` default
detect_by_ml_no_default(call, min_conf, margin) ==
    IF call.status = "raised" THEN get_fallback_intent
    ELSE LET selected == SelectedFrom(call, 1, min_conf, margin)
         IN  [method |-> "ml",
              categories |-> CategoriesOf(selected),
              folders |-> FoldersOf(selected),
              confidence |-> call.scores[1],
              details |-> selected]

\* call: what the classifier did ("raised" with the error's text, or "ok" with
\* labels and scores); the whole body is inside try/except Exception
detect_by_ml(call, min_conf, margin) ==
    IF call.status = "raised" THEN get_fallback_intent
    ELSE LET top_score == call.scores[1]
             picked == SelectedFrom(call, 1, min_conf, margin)
             selected == IF picked = <<>>
                         THEN <<[category |-> GeneralCategory,
                                 confidence |-> FullConfidence,
                                 method |-> "fallback"]>>
                         ELSE picked
         IN  [method |-> "ml",
              categories |-> CategoriesOf(selected),
              folders |-> FoldersOf(selected),
              confidence |-> top_score,
              details |-> selected]

keyword_intent(keyword_matches) ==
    [method |-> "keyword",
     categories |-> CategoriesOf(keyword_matches),
     folders |-> FoldersOf(keyword_matches),
     confidence |-> FullConfidence,
     details |-> keyword_matches]

\* detect_intents after its keyword pass: keyword_matches is what
\* _detect_by_keywords returned, call is what the classifier did when called
intents_from(keyword_matches, min_conf, margin, call) ==
    IF keyword_matches # <<>> THEN keyword_intent(keyword_matches)
    ELSE detect_by_ml(call, min_conf, margin)

detect_intents(prompt, min_conf, margin, call) ==
    intents_from(detect_by_keywords(prompt), min_conf, margin, call)

(***************************************************************************)
(* DocumentProcessor (utils/document_processor.py)                         *)
(***************************************************************************)
\* the result of a call: a list of (similarity, filename, content), or an
\* exception that leaves the call
Returned(docs) == [raised |-> FALSE, error |-> "", docs |-> docs]
Raised(error) == [raised |-> TRUE, error |-> error, docs |-> <<>>]

\* the loop over text_files: a file whose open/read/encode raises is skipped by
\* the except clause, a file that is empty after strip() by `continue`, a file
\* below the threshold is not appended
RECURSIVE ProcessFiles_exclusive(_, _)
ProcessFiles_exclusive(text_files, min_sim) ==
    IF text_files = <<>> THEN <<>>
    ELSE LET f == Head(text_files)
             content == Strip(f.content)
         IN  (IF f.status = "ok" /\ content # <<>> /\ f.similarity > min_sim
              THEN <<[similarity |-> f.similarity, filename |-> f.name,
                      content |-> content]>>
              ELSE <<>>)
             \o ProcessFiles_exclusive(Tail(text_files), min_sim)

RECURSIVE ProcessFiles(_, _)
ProcessFiles(text_files, min_sim) ==
    IF text_files = <<>> THEN <<>>
    ELSE LET f == Head(text_files)
             content == Strip(f.content)
         IN  (IF f.status = "ok" /\ content # <<>> /\ f.similarity >= min_sim
              THEN <<[similarity |-> f.similarity, filename |-> f.name,
                      content |-> content]>>
              ELSE <<>>)
             \o ProcessFiles(Tail(text_files), min_sim)

\* folder.glob("*.txt"): the text files of the folder, in enumeration order
TextFiles(disk, folder_path) ==
    SelectSeq(disk.files, LAMBDA f : f.folder = folder_path)

\* _process_folder without the try/except around a file: the first failing
\* file's exception leaves the call
process_folder_unguarded(disk, folder_path, min_sim) ==
    LET text_files == TextFiles(disk, folder_path)
        failing == {i \in 1..Len(text_files) : text_files[i].status = "error"}
    IN  IF folder_path \notin disk.existing THEN Returned(<<>>)
        ELSE IF failing # {}
        THEN Raised(text_files[CHOOSE i \in failing : \A j \in failing : i <= j].error)
        ELSE Returned(ProcessFiles(text_files, min_sim))

process_folder(disk, folder_path, min_sim) ==
    IF folder_path \notin disk.existing THEN Returned(<<>>)
    ELSE LET text_files == TextFiles(disk, folder_path)
         IN  IF text_files = <<>> THEN Returned(<<>>)
             ELSE Returned(ProcessFiles(text_files, min_sim))

\* a descending sort that puts a document before those of equal similarity
InsertDesc_ties_reversed(sorted, doc) ==
    LET before == {i \in 1..Len(sorted) : sorted[i].similarity > doc.similarity}
        n == IF before = {} THEN 0 ELSE CHOOSE i \in before : \A j \in before : j <= i
    IN  SubSeq(sorted, 1, n) \o <<doc>> \o SubSeq(sorted, n + 1, Len(sorted))

\* list.sort(reverse=True, key=lambda x: x[0]): descending by similarity, equal
\* similarities keep their order
InsertDesc(sorted, doc) ==
    LET before == {i \in 1..Len(sorted) : sorted[i].similarity >= doc.similarity}
        n == IF before = {} THEN 0 ELSE CHOOSE i \in before : \A j \in before : j <= i
    IN  SubSeq(sorted, 1, n) \o <<doc>> \o SubSeq(sorted, n + 1, Len(sorted))

\* the sort without reverse=True
InsertAsc(sorted, doc) ==
    LET before == {i \in 1..Len(sorted) : sorted[i].similarity <= doc.similarity}
        n == IF before = {} THEN 0 ELSE CHOOSE i \in before : \A j \in before : j <= i
    IN  SubSeq(sorted, 1, n) \o <<doc>> \o SubSeq(sorted, n + 1, Len(sorted))

RECURSIVE SortAscending(_)
SortAscending(results) ==
    IF results = <<>> THEN <<>>
    ELSE InsertAsc(SortAscending(SubSeq(results, 1, Len(results) - 1)),
                   results[Len(results)])

RECURSIVE SortDescending(_)
SortDescending(results) ==
    IF results = <<>> THEN <<>>
    ELSE InsertDesc(SortDescending(SubSeq(results, 1, Len(results) - 1)),
                    results[Len(results)])

\* results[:k] for k >= 0
Prefix(results, k) == SubSeq(results, 1, IF k < Len(results) THEN k ELSE Len(results))

\* the loop over folders: results.extend(folder_results)
RECURSIVE ExtendFromFolders(_, _, _)
ExtendFromFolders(disk, folders, min_sim) ==
    IF folders = <<>> THEN Returned(<<>>)
    ELSE LET first == process_folder(disk, Head(folders), min_sim)
             rest == ExtendFromFolders(disk, Tail(folders), min_sim)
         IN  IF first.raised THEN first
             ELSE IF rest.raised THEN rest
             ELSE Returned(first.docs \o rest.docs)

\* query: what self.embedder.encode(user_prompt) did ("ok" or "raised")
rank_documents(query, disk, folders, k, min_sim) ==
    IF query.status = "raised" THEN Raised(query.error)
    ELSE LET results == ExtendFromFolders(disk, folders, min_sim)
         IN  IF results.raised THEN results
             ELSE Returned(Prefix(SortDescending(results.docs), k))

(***************************************************************************)
(* ResponseEnhancer (utils/response_enhancer.py)                           *)
(***************************************************************************)
\* the characters of a category name, for `'service' in category.lower()`
category_chars(category) ==
  CASE category = "general information about the company" ->
        <<"g","e","n","e","r","a","l"," ","i","n","f","o","r","m","a","t","i","o","n"," ","a","b","o","u","t"," ","t","h","e"," ","c","o","m","p","a","n","y">>
    [] category = "company blog posts" ->
        <<"c","o","m","p","a","n","y"," ","b","l","o","g"," ","p","o","s","t","s">>
    [] category = "career opportunities, vacancies, and recruitment" ->
        <<"c","a","r","e","e","r"," ","o","p","p","o","r","t","u","n","i","t","i","e","s",","," ","v","a","c","a","n","c","i","e","s",","," ","a","n","d"," ","r","e","c","r","u","i","t","m","e","n","t">>
    [] category = "case studies of past projects" ->
        <<"c","a","s","e"," ","s","t","u","d","i","e","s"," ","o","f"," ","p","a","s","t"," ","p","r","o","j","e","c","t","s">>
    [] category = "services offered by the company" ->
        <<"s","e","r","v","i","c","e","s"," ","o","f","f","e","r","e","d"," ","b","y"," ","t","h","e"," ","c","o","m","p","a","n","y">>
    [] category = "success stories and client achievements" ->
        <<"s","u","c","c","e","s","s"," ","s","t","o","r","i","e","s"," ","a","n","d"," ","c","l","i","e","n","t"," ","a","c","h","i","e","v","e","m","e","n","t","s">>
    [] category = "industry-specific expertise and domain knowledge" ->
        <<"i","n","d","u","s","t","r","y","-","s","p","e","c","i","f","i","c"," ","e","x","p","e","r","t","i","s","e"," ","a","n","d"," ","d","o","m","a","i","n"," ","k","n","o","w","l","e","d","g","e">>
    [] category = "company policy and disclaimers" ->
        <<"c","o","m","p","a","n","y"," ","p","o","l","i","c","y"," ","a","n","d"," ","d","i","s","c","l","a","i","m","e","r","s">>

NeedleService == <<"s","e","r","v","i","c","e">>
NeedleCareer == <<"c","a","r","e","e","r">>
NeedleCase == <<"c","a","s","e">>
NeedleSuccess == <<"s","u","c","c","e","s","s">>
NeedleBusiness == <<"b","u","s","i","n","e","s","s">>
GreetingHi == <<"H","i">>
GreetingHello == <<"H","e","l","l","o">>

company_name == "Sundew Solutions"
company_tagline == "Digital First. Digital Fast."
bot_name == "Chetan"
sales_email == "sales@sundewsolutions.com"
support_email == "support@sundewsolutions.com"
careers_email == "careers@sundewsolutions.com"

Newline == "\n"

\* a user profile is a dict: a set of <<key, value>> pairs with distinct keys;
\* None and {} are both the empty set (the code tests `if user_data`)
Get(dict, key) ==
    IF \E p \in dict : p[1] = key THEN (CHOOSE p \in dict : p[1] = key)[2] ELSE <<>>

\* a number of hundredths below 10.00 as decimal digits
Digit(d) == <<"0", "1", "2", "3", "4", "5", "6", "7", "8", "9">>[d + 1]
\* f"{x:.2f}"
Format2(x) == <<Digit(x \div 100), ".", Digit((x \div 10) % 10), Digit(x % 10)>>
\* f"{x:.3f}"
Format3(x) == Format2(x) \o <<"0">>

\* email.split('@')[1] if '@' in email else ''
EmailDomain(email) ==
    LET ats == {i \in 1..Len(email) : email[i] = "@"}
    IN  IF ats = {} THEN <<>>
        ELSE LET first == CHOOSE i \in ats : \A j \in ats : i <= j
                 later == {i \in ats : i > first}
                 stop == IF later = {} THEN Len(email) + 1
                         ELSE CHOOSE i \in later : \A j \in later : i <= j
             IN  SubSeq(email, first + 1, stop - 1)

\* '\n'.join(parts)
RECURSIVE JoinLines(_)
JoinLines(parts) ==
    IF parts = <<>> THEN <<>>
    ELSE IF Len(parts) = 1 THEN Head(parts)
    ELSE Head(parts) \o <<Newline>> \o JoinLines(Tail(parts))

build_user_context(profile) ==
    LET context_parts ==
            (IF Get(profile, "name") # <<>>
             THEN << <<"- User name: ">> \o Get(profile, "name") >> ELSE <<>>)
         \o (IF Get(profile, "email") # <<>>
             THEN << <<"- Email domain: ">> \o EmailDomain(Get(profile, "email")) >>
             ELSE <<>>)
         \o (IF Get(profile, "user_type") # <<>>
             THEN << <<"- User type: ">> \o Get(profile, "user_type") >> ELSE <<>>)
         \o (IF Get(profile, "company_size") # <<>>
             THEN << <<"- Company size: ">> \o Get(profile, "company_size") >>
             ELSE <<>>)
         \o (IF Get(profile, "selected_service") # <<>>
             THEN << <<"- Interested in: ">> \o Get(profile, "selected_service") >>
             ELSE <<>>)
    IN  IF context_parts # <<>> THEN JoinLines(context_parts)
        ELSE <<"- New user interaction">>

\* ', '.join(categories[:2])
TopTwo(cats) ==
    IF Len(cats) = 0 THEN <<>>
    ELSE IF Len(cats) = 1 THEN <<cats[1]>>
    ELSE <<cats[1], ", ", cats[2]>>

build_intent_context(intents) ==
    LET context_parts ==
            (IF intents.categories # <<>>
             THEN << <<"- Primary topics: ">> \o TopTwo(intents.categories) >>
             ELSE <<>>)
         \o (IF intents.method # ""
             THEN << <<"- Detection method: ", intents.method>> >> ELSE <<>>)
         \o (IF intents.confidence # 0
             THEN << <<"- Confidence: ">> \o Format2(intents.confidence) >> ELSE <<>>)
    IN  IF context_parts # <<>> THEN JoinLines(context_parts)
        ELSE <<"- General inquiry">>

\* the f-string of lines 22-37, one token per line or interpolated value
base_prompt ==
    <<Newline, "        You are ", bot_name,
      ", a professional business assistant at ", company_name, ".", Newline,
      Newline,
      "        Your role:", Newline,
      "        - Answer user questions clearly, concisely, and accurately using company-provided data", Newline,
      "        - Maintain a helpful, professional, and business-appropriate tone", Newline,
      "        - If unsure about specific details, acknowledge limitations and offer to connect with human experts", Newline,
      "        - Always include relevant resource links when available", Newline,
      "        - Focus on providing value to the user", Newline,
      Newline,
      "        Company Context:", Newline,
      "        - ", company_name, ": Digital transformation company", Newline,
      "        - Tagline: ", company_tagline, Newline,
      "        - Services: AI/Automation, Custom Development, Cloud Solutions, Digital Experience", Newline,
      "        - Contact: ", sales_email, " for sales, ", support_email, " for support", Newline,
      "        ">>

\* a builder whose block order changes from one call of the session to the next
build_professional_prompt_unordered(user_question, profile, intents) ==
    LET user_block ==
            IF profile # {}
            THEN <<Newline, Newline, "User Context:", Newline>>
                 \o build_user_context(profile)
            ELSE <<>>
        intent_block ==
            <<Newline, Newline, "Detected Intent:", Newline>>
            \o build_intent_context(intents)
    IN  base_prompt
        \o (IF turns % 2 = 0 THEN user_block \o intent_block
            ELSE intent_block \o user_block)
        \o <<Newline, Newline, "User Question: ">> \o user_question
        \o <<Newline, Newline, "Provide a helpful, accurate response:">>

\* intents is never None or empty where the engine calls it; user_data may be
build_professional_prompt(user_question, profile, intents) ==
    base_prompt
    \o (IF profile # {}
        THEN <<Newline, Newline, "User Context:", Newline>> \o build_user_context(profile)
        ELSE <<>>)
    \o <<Newline, Newline, "Detected Intent:", Newline>> \o build_intent_context(intents)
    \o <<Newline, Newline, "User Question: ">> \o user_question
    \o <<Newline, Newline, "Provide a helpful, accurate response:">>

\* str.startswith(prefix)
StartsWith(text, prefix) ==
    Len(text) >= Len(prefix) /\ SubSeq(text, 1, Len(prefix)) = prefix

\* str.replace(old, new, 1) for a non-empty old
ReplaceFirst(text, old, new) ==
    LET at == {i \in 1..(Len(text) - Len(old) + 1) :
                  SubSeq(text, i, i + Len(old) - 1) = old}
    IN  IF at = {} THEN text
        ELSE LET i == CHOOSE k \in at : \A j \in at : k <= j
             IN  SubSeq(text, 1, i - 1) \o new \o SubSeq(text, i + Len(old), Len(text))

ClientFraming ==
    <<Newline, Newline,
      "As a business looking for solutions, I'd be happy to discuss how we can specifically help your company grow.">>
JobSeekerFraming ==
    <<Newline, Newline,
      "Since you're interested in career opportunities, I can also share information about our company culture and current openings.">>

add_personalization(text, profile) ==
    IF profile = {} THEN text
    ELSE LET name == Get(profile, "name")
             user_type == Get(profile, "user_type")
             named ==
                 IF name # <<>> /\ ~Contains(Lower(text), Lower(name))
                 THEN IF StartsWith(text, GreetingHi) \/ StartsWith(text, GreetingHello)
                      THEN ReplaceFirst(
                               ReplaceFirst(text, GreetingHi,
                                            GreetingHi \o <<" ">> \o name),
                               GreetingHello, GreetingHello \o <<" ">> \o name)
                      ELSE GreetingHi \o <<" ">> \o name \o <<"!", " ">> \o text
                 ELSE text
         IN  IF user_type = <<"potential_client">>
                /\ ~Contains(Lower(named), NeedleBusiness)
             THEN named \o ClientFraming
             ELSE IF user_type = <<"job_seeker">>
                     /\ ~Contains(Lower(named), NeedleCareer)
             THEN named \o JobSeekerFraming
             ELSE named

IsServiceCategory(category) == Contains(Lower(category_chars(category)), NeedleService)
IsCareerCategory(category) == Contains(Lower(category_chars(category)), NeedleCareer)
IsCaseCategory(category) ==
    \/ Contains(Lower(category_chars(category)), NeedleCase)
    \/ Contains(Lower(category_chars(category)), NeedleSuccess)

\* the call-to-action candidates of each family (the emoji that opens each is
\* written as a word)
ServiceCtas ==
    << <<"(phone) **Ready to discuss your project?** Contact our sales team at ", sales_email>>,
       <<"(clipboard) **Want to see similar projects?** Check out our case studies">>,
       <<"(speech) **Need a custom solution?** Let's schedule a consultation">> >>
CareerCtas ==
    << <<"(briefcase) **Ready to apply?** Send your resume to ", careers_email>>,
       <<"(star) **Learn about our culture:** Visit our careers page">>,
       <<"(memo) **Current openings:** Check our latest job postings">> >>
CaseStudyCtas ==
    << <<"(target) **Interested in similar results?** Let's discuss your requirements">>,
       <<"(chart) **Want to see more examples?** Browse our complete case studies">>,
       <<"(bulb) **Have a similar challenge?** Get a free consultation">> >>

\* the loop over categories with its three `break`s
RECURSIVE CtasFor(_)
CtasFor(cats) ==
    IF cats = <<>> THEN <<>>
    ELSE IF IsServiceCategory(Head(cats)) THEN ServiceCtas
    ELSE IF IsCareerCategory(Head(cats)) THEN CareerCtas
    ELSE IF IsCaseCategory(Head(cats)) THEN CaseStudyCtas
    ELSE CtasFor(Tail(cats))

\* pick: the index random.choice selects in ctas[:2]
add_contextual_ctas(text, intents, pick) ==
    LET ctas == CtasFor(intents.categories)
    IN  IF ctas # <<>>
        THEN text \o <<Newline, Newline, "-", "-", "-", Newline, Newline>>
                     \o ctas[pick]
        ELSE text

\* tagline: whether random.random() < 0.3
add_branding_elements(text, intents, tagline) ==
    LET tagged ==
            IF tagline
            THEN text \o <<Newline, Newline, "*", company_name, ": ", company_tagline, "*">>
            ELSE text
    IN  IF \E n \in 1..Len(intents.categories) : IsServiceCategory(intents.categories[n])
        THEN tagged \o <<Newline, Newline,
                         "(bulb) *With 8+ years of digital transformation expertise, ",
                         company_name, " has helped 100+ businesses achieve their goals.*">>
        ELSE tagged

\* the number of consecutive tokens equal to c from position i on
RECURSIVE RunLength(_, _, _)
RunLength(text, i, c) ==
    IF i <= Len(text) /\ text[i] = c THEN 1 + RunLength(text, i + 1, c) ELSE 0

\* the header substitution without its group reference: re.sub(r'\n(#{1,6}\s)', r'\n\n', response)
RECURSIVE SpaceHeadersFrom_group_dropped(_, _)
SpaceHeadersFrom_group_dropped(text, i) ==
    IF i > Len(text) THEN <<>>
    ELSE LET hashes == RunLength(text, i + 1, "#")
         IN  IF /\ text[i] = Newline
                /\ hashes \in 1..6
                /\ i + 1 + hashes <= Len(text)
                /\ IsSpace(text[i + 1 + hashes])
             THEN <<Newline, Newline>>
                  \o SpaceHeadersFrom_group_dropped(text, i + 2 + hashes)
             ELSE <<text[i]>> \o SpaceHeadersFrom_group_dropped(text, i + 1)

\* re.sub(r'\n(#{1,6}\s)', r'\n\n\1', response)
RECURSIVE SpaceHeadersFrom(_, _)
SpaceHeadersFrom(text, i) ==
    IF i > Len(text) THEN <<>>
    ELSE LET hashes == RunLength(text, i + 1, "#")
         IN  IF /\ text[i] = Newline
                /\ hashes \in 1..6
                /\ i + 1 + hashes <= Len(text)
                /\ IsSpace(text[i + 1 + hashes])
             THEN <<Newline, Newline>> \o SubSeq(text, i + 1, i + 1 + hashes)
                  \o SpaceHeadersFrom(text, i + 2 + hashes)
             ELSE <<text[i]>> \o SpaceHeadersFrom(text, i + 1)

\* re.sub(r'\n-\s', r'\n\n- ', response) and the same for '*'
RECURSIVE SpaceBulletsFrom(_, _, _)
SpaceBulletsFrom(text, i, marker) ==
    IF i > Len(text) THEN <<>>
    ELSE IF /\ text[i] = Newline
            /\ i + 2 <= Len(text)
            /\ text[i + 1] = marker
            /\ IsSpace(text[i + 2])
         THEN <<Newline, Newline, marker, " ">> \o SpaceBulletsFrom(text, i + 3, marker)
         ELSE <<text[i]>> \o SpaceBulletsFrom(text, i + 1, marker)

\* re.sub(r'\n{3,}', '\n\n', response)
RECURSIVE CollapseNewlinesFrom(_, _)
CollapseNewlinesFrom(text, i) ==
    IF i > Len(text) THEN <<>>
    ELSE LET run == RunLength(text, i, Newline)
         IN  IF run >= 3 THEN <<Newline, Newline>> \o CollapseNewlinesFrom(text, i + run)
             ELSE <<text[i]>> \o CollapseNewlinesFrom(text, i + 1)

format_response(text) ==
    LET headers == SpaceHeadersFrom(text, 1)
        dashes == SpaceBulletsFrom(headers, 1, "-")
        stars == SpaceBulletsFrom(dashes, 1, "*")
        collapsed == CollapseNewlinesFrom(stars, 1)
    IN  Strip(collapsed)

enhance_response(base_response, intents, profile, pick, tagline) ==
    format_response(
        add_branding_elements(
            add_contextual_ctas(add_personalization(base_response, profile),
                                intents, pick),
            intents, tagline))

(***************************************************************************)
(* ChatEngine (app/chat_engine.py) and what the components show on the     *)
(* page (st.write, st.warning, st.error)                                   *)
(***************************************************************************)
Shown(kind, text) == [kind |-> kind, text |-> text]

\* the st.write / st.warning calls of detect_intents and _detect_by_ml
RECURSIVE KeywordLines(_)
KeywordLines(details) ==
    IF details = <<>> THEN <<>>
    ELSE <<Shown("write", <<"  - ", Head(details).category, " (keyword: '">>
                          \o Head(details).keyword \o <<"')">>)>>
         \o KeywordLines(Tail(details))

RECURSIVE ClassifierLines(_)
ClassifierLines(details) ==
    IF details = <<>> THEN <<>>
    ELSE <<Shown("write", <<"  - ", Head(details).category, " (">>
                          \o Format3(Head(details).confidence) \o <<")">>)>>
         \o ClassifierLines(Tail(details))

detect_messages(intents, call) ==
    IF intents.method = "keyword"
    THEN <<Shown("write", <<"Intent detected using keyword matching:">>)>>
         \o KeywordLines(intents.details)
    ELSE IF call.status = "raised"
    THEN <<Shown("warning", <<"ML classification error: ", call.error>>)>>
    ELSE <<Shown("write", <<"Intent detected using ML classification:">>)>>
         \o ClassifierLines(intents.details)

\* the st.write / st.warning calls of _process_folder
RECURSIVE FileLines(_, _, _)
FileLines(folder_path, text_files, min_sim) ==
    IF text_files = <<>> THEN <<>>
    ELSE LET f == Head(text_files)
         IN  (IF f.status = "error"
              THEN <<Shown("warning",
                           <<"Error processing ", folder_path, f.name, ": ", f.error>>)>>
              ELSE IF Strip(f.content) = <<>> THEN <<>>
              ELSE IF f.similarity >= min_sim
              THEN <<Shown("write", <<f.name, ": ">> \o Format3(f.similarity))>>
              ELSE <<Shown("write", <<f.name, ": ">> \o Format3(f.similarity)
                                    \o <<" (below threshold)">>)>>)
             \o FileLines(folder_path, Tail(text_files), min_sim)

process_folder_messages(disk, folder_path, min_sim) ==
    IF folder_path \notin disk.existing
    THEN <<Shown("warning", <<"Folder not found: ", folder_path>>)>>
    ELSE LET text_files == TextFiles(disk, folder_path)
             searching == <<Shown("write", <<"Searching in: ", folder_path>>)>>
         IN  IF text_files = <<>>
             THEN searching \o <<Shown("write", <<"No text files found in ", folder_path>>)>>
             ELSE searching
                  \o FileLines(folder_path, text_files, min_sim)
                  \o <<Shown("write",
                             <<"Processed ", Digit(Len(ProcessFiles(text_files, min_sim))),
                               " relevant documents from ", Digit(Len(text_files)),
                               " files">>)>>

RECURSIVE rank_messages(_, _, _, _)
rank_messages(query, disk, folders, min_sim) ==
    IF query.status = "raised" \/ folders = <<>> THEN <<>>
    ELSE process_folder_messages(disk, Head(folders), min_sim)
         \o rank_messages(query, disk, Tail(folders), min_sim)

\* the engine's call rank_documents(user_input, folders, top_k=3)
EngineTopK == 3

Apology ==
    <<"I apologize, but I encountered an error. Please try rephrasing your question.">>

\* a ranker that searches the folder of every configured category
folders_searched_all_categories(intents) ==
    [i \in 1..Len(categories) |-> category_folders(categories[i])]

\* the folders argument of rank_documents: intents.get('folders', [])
folders_searched(intents) == intents.folders

\* the branch taken on the documents alone
should_generate_docs_only(matched_docs, llm_configured) ==
    matched_docs # <<>>

\* `if matched_docs and self.llm`
should_generate(matched_docs, llm_configured) ==
    matched_docs # <<>> /\ llm_configured

\* what the dict passed as user_data holds after build_professional_prompt
\* and after enhance_response: both only read it (user_data.get, user_data[key])
profile_after_build_prompt(profile) == profile

\* an enhancer that drops the name from the dict once it has used it
\* (user_data.pop('name', None))
profile_after_enhance_name_popped(profile) ==
    {p \in profile : p[1] # "name"}

profile_after_enhance(profile) == profile

\* how a call of process_user_input ends: it returns reply, or an exception
\* leaves it; shown is what it puts on the page on the way out
CallEnd(outcome, text, shown) == [outcome |-> outcome, reply |-> text, shown |-> shown]

\* the handler without its return: the exception leaves process_user_input
handle_exception_reraised(error) ==
    CallEnd("raised", <<>>, <<Shown("error", <<"Error processing input: ", error>>)>>)

\* except Exception as e: st.error(...); return "I apologize, ..."
handle_exception(error) ==
    CallEnd("returned", Apology,
            <<Shown("error", <<"Error processing input: ", error>>)>>)

\* _generate_fallback_response keyed on the last detected category
generate_fallback_response_last_category(intents, profile) ==
    <<"I'd be happy to help you with information about Sundew Solutions! ">>
    \o (IF intents.categories # <<>>
        THEN LET category ==
                     Lower(category_chars(intents.categories[Len(intents.categories)]))
             IN  IF Contains(category, NeedleService)
                 THEN <<"We offer comprehensive digital transformation services including AI chatbots, custom web development, and automation solutions. ">>
                 ELSE IF Contains(category, NeedleCareer)
                 THEN <<"We're always looking for talented individuals! Check out our careers page for current openings. ">>
                 ELSE IF Contains(category, NeedleCase)
                 THEN <<"Our case studies showcase successful projects across various industries. ">>
                 ELSE <<>>
        ELSE <<>>)
    \o <<"For specific information, please contact our team at ",
         "sales@sundewsolutions.com", " or visit our website.">>

\* _generate_fallback_response; user_data is not used by it
generate_fallback_response(intents, profile) ==
    <<"I'd be happy to help you with information about Sundew Solutions! ">>
    \o (IF intents.categories # <<>>
        THEN LET category == Lower(category_chars(intents.categories[1]))
             IN  IF Contains(category, NeedleService)
                 THEN <<"We offer comprehensive digital transformation services including AI chatbots, custom web development, and automation solutions. ">>
                 ELSE IF Contains(category, NeedleCareer)
                 THEN <<"We're always looking for talented individuals! Check out our careers page for current openings. ">>
                 ELSE IF Contains(category, NeedleCase)
                 THEN <<"Our case studies showcase successful projects across various industries. ">>
                 ELSE <<>>
        ELSE <<>>)
    \o <<"For specific information, please contact our team at ",
         "sales@sundewsolutions.com", " or visit our website.">>

HumanMessage(content) == [role |-> "human", content |-> content]
AIMessage(content) == [role |-> "ai", content |-> content]

\* what chain.run leaves in self.memory: ConversationalRetrievalChain was
\* built with memory=self.memory, so a run that succeeds saves its input (the
\* "question", here the enhanced prompt) and its output (the raw answer); a run
\* that raises saves nothing
chain_save_context(messages, question, answer) ==
    messages \o <<HumanMessage(question), AIMessage(answer)>>

(***************************************************************************)
(* Inputs of the model                                                     *)
(***************************************************************************)
Fragments ==
  { <<"W","h","a","t"," ","a","r","e"," ","y","o","u","r"," ","c","u","r","r","e","n","t"," ","j","o","b"," ","o","p","e","n","i","n","g","s","?">>,
    <<"C","a","r","e","e","r">>,
    <<" ","b","l","o","g">>,
    <<"d","o","m","a","i","n"," ","k","n","o","w","l","e","d","g","e">>,
    <<"f","o","o","d"," ">>,
    <<"h","e","l","l","o">>,
    <<"h","i">>,
    <<"r","e"," ">> }

Utterances ==
    {Concat(fs) : fs \in UNION {[1..n -> Fragments] : n \in 0..MaxFrags}}

MinConfidences == {30, DefaultMinConfidence}
ScoreMargins == {DefaultScoreMargin}

\* classifier scores; the pipeline is called single-label, so they sum to
\* at most 1
ScoreLevels == {10, 30, 33, 45, 50, 55, 90}

RECURSIVE SumSeq(_)
SumSeq(s) == IF s = <<>> THEN 0 ELSE Head(s) + SumSeq(Tail(s))

Range(s) == {s[i] : i \in 1..Len(s)}
NoDuplicates(s) == \A i, j \in 1..Len(s) : i # j => s[i] # s[j]

\* the configured categories that are not in the sequence top, in configured order
RestOf(top) == SelectSeq(categories, LAMBDA c : c \notin Range(top))

\* the labels the classifier may rank first: one category of each family
TopLabels ==
    {GeneralCategory,
     "career opportunities, vacancies, and recruitment",
     "case studies of past projects",
     "services offered by the company"}

\* the text of an exception raised by a model or the backend
ErrorTexts == {"CUDA out of memory", "Connection timed out"}

\* results of classifier(user_prompt, categories): every candidate label once,
\* ordered by score descending
ClassifierResults ==
    {[status |-> "ok", error |-> "",
      labels |-> top \o RestOf(top),
      scores |-> sc \o [i \in 1..(Len(categories) - Len(top)) |-> 0]] :
        <<top, sc>> \in
            {p \in [1..MaxTop -> TopLabels] \X [1..MaxTop -> ScoreLevels] :
                /\ NoDuplicates(p[1])
                /\ \A i \in 1..(MaxTop - 1) : p[2][i] >= p[2][i + 1]
                /\ SumSeq(p[2]) <= 100}}

ClassifierRaised(error) ==
    [status |-> "raised", error |-> error, labels |-> <<>>, scores |-> <<>>]
NotInvoked == [status |-> "not_invoked", error |-> "", labels |-> <<>>, scores |-> <<>>]
ClassifierOutcomes == ClassifierResults \cup {ClassifierRaised(e) : e \in ErrorTexts}

NoIntents ==
    [method |-> "none", categories |-> <<>>, folders |-> <<>>, confidence |-> 0,
     details |-> <<>>]

\* the folders of the corpus the ranker is tried on
RankFolders == {"data/General/", "data/Services/"}

\* cosine similarities of a document's comparison text to the query
SimLevels == {DefaultMinSimilarity, 40, 91}

FileNames == <<"about.txt", "chatbots.txt", "cloud.txt", "design.txt", "faq.txt">>

DocText == <<"Sundew Solutions builds AI chatbots.">>
BlankText == <<" ", "\n">>

\* what a text file can be: readable with some similarity, readable but blank
\* (its comparison text would be the file name alone), or failing when it is
\* opened, read or embedded
FileKinds ==
    {[status |-> "ok", content |-> DocText, similarity |-> sim, error |-> ""] :
        sim \in SimLevels}
    \cup {[status |-> "ok", content |-> BlankText, similarity |-> 40, error |-> ""]}
    \cup {[status |-> "error", content |-> <<>>, similarity |-> 0,
           error |-> "Permission denied"]}

MakeFile(i, folder, kind) ==
    [folder |-> folder, name |-> FileNames[i], status |-> kind.status,
     content |-> kind.content, similarity |-> kind.similarity, error |-> kind.error]

\* the corpus: the folders that exist and the text files in them, in the order
\* glob enumerates them
Corpora ==
    UNION {
        {[existing |-> ex,
          files |-> [i \in 1..Len(fk) |-> MakeFile(i, fk[i][1], fk[i][2])]] :
            ex \in {e \in SUBSET RankFolders : \A i \in 1..Len(fk) : fk[i][1] \in e}} :
        fk \in UNION {[1..n -> RankFolders \X FileKinds] : n \in 0..MaxFiles}}

\* lists of distinct folders (the folders of distinct categories)
FolderLists ==
    {fl \in UNION {[1..n -> RankFolders] : n \in 0..Cardinality(RankFolders)} :
        NoDuplicates(fl)}

TopKs == {1, DefaultMaxDocuments}
MinSimilarities == {DefaultMinSimilarity, 40}

EmbeddingOk == [status |-> "ok", error |-> ""]
EmbeddingRaised(error) == [status |-> "raised", error |-> error]
EmbeddingOutcomes == {EmbeddingOk} \cup {EmbeddingRaised(e) : e \in ErrorTexts}
NotEmbedded == [status |-> "not_invoked", error |-> ""]

NoCorpus == [existing |-> {}, files |-> <<>>]
NoRanking == [raised |-> FALSE, error |-> "", docs |-> <<>>]

ReplyPlain == <<"W","e"," ","b","u","i","l","d"," ","A","I"," ","c","h","a","t","b","o","t","s",".">>
ReplyGreeting == <<"H","e","l","l","o","!"," ","O","u","r"," ","b","u","s","i","n","e","s","s"," ","i","s"," ","a","u","t","o","m","a","t","i","o","n",".">>
NameAsha == <<"A","s","h","a">>
UtteranceJobs == <<"W","h","a","t"," ","a","r","e"," ","y","o","u","r"," ","c","u","r","r","e","n","t"," ","j","o","b"," ","o","p","e","n","i","n","g","s","?">>
UtteranceHello == <<"h","e","l","l","o">>
UtteranceServices == <<"A","I"," ","S","e","r","v","i","c","e","s">>

\* the inputs of a turn
TurnUtterances == {UtteranceJobs, UtteranceHello, UtteranceServices}

ProfileClient ==
    {<<"name", NameAsha>>, <<"email", <<"asha", "@", "acme.example">>>>,
     <<"user_type", <<"potential_client">>>>}
TurnProfiles == {{}, ProfileClient}

MakeClassifierResult(top, sc) ==
    [status |-> "ok", error |-> "",
     labels |-> top \o RestOf(top),
     scores |-> sc \o [i \in 1..(Len(categories) - Len(top)) |-> 0]]

TurnClassifierOutcomes ==
    {ClassifierRaised("CUDA out of memory"),
     MakeClassifierResult(<<GeneralCategory>>, <<90>>),
     MakeClassifierResult(<<"services offered by the company",
                            "case studies of past projects">>, <<50, 50>>)}

BackendAnswered(text) == [status |-> "ok", error |-> "", text |-> text]
BackendRaised(error) == [status |-> "raised", error |-> error, text |-> <<>>]
BackendOutcomes ==
    {BackendAnswered(ReplyPlain), BackendAnswered(ReplyGreeting),
     BackendRaised("Connection timed out")}
BackendNotInvoked == [status |-> "not_invoked", error |-> "", text |-> <<>>]

\* whether enhance_response returns or raises (a profile value that is not a
\* string makes name.lower() raise)
EnhancerFaults == {"", "'int' object has no attribute 'lower'"}

\* the corpus of a session: no data folder at all, or the configured folders
\* with a document about the company, one about services and a file in the
\* career folder that cannot be read; a file's similarity is taken to be the
\* same for every utterance
AllFolders == {category_folders(categories[i]) : i \in 1..Len(categories)}
SessionCorpus ==
    [existing |-> AllFolders,
     files |->
        <<[folder |-> "data/General/", name |-> "about.txt", status |-> "ok",
           content |-> DocText, similarity |-> 40, error |-> ""],
          [folder |-> "data/Services/", name |-> "chatbots.txt", status |-> "ok",
           content |-> DocText, similarity |-> 91, error |-> ""],
          [folder |-> "data/Career and Vacancies/", name |-> "jobs.txt",
           status |-> "error", content |-> <<>>, similarity |-> 0,
           error |-> "Permission denied"]>>]
TurnCorpora == {NoCorpus, SessionCorpus}

\* the variables of a component that is not exercised
SessionsIdle ==
    /\ sessions = <<>>
    /\ engines = <<>>
    /\ analytics_lines = 0

DetectIdle ==
    /\ user_prompt = <<>>
    /\ min_confidence = DefaultMinConfidence
    /\ score_margin = DefaultScoreMargin
    /\ classifier_call = NotInvoked
    /\ detect_result = NoIntents
    /\ detect_pc = "idle"

EngineIdle ==
    /\ pc = "AWAITING_INPUT"
    /\ llm = FALSE
    /\ user_input = <<>>
    /\ user_data = {}
    /\ memory = <<>>
    /\ memory_at_call = <<>>
    /\ backend_call = BackendNotInvoked
    /\ response = <<>>
    /\ reply = <<>>
    /\ call_outcome = "none"
    /\ displayed = <<>>
    /\ turns = 0
    /\ prompt_log = <<>>
    /\ stage_log = <<>>

RankIdle ==
    /\ corpus = NoCorpus
    /\ rank_folders = <<>>
    /\ top_k = DefaultMaxDocuments
    /\ min_similarity = DefaultMinSimilarity
    /\ query_embedding = NotEmbedded
    /\ rank_result = NoRanking
    /\ rank_pc = "idle"

(***************************************************************************)
(* SpecDetect: detect_intents applied to every bounded input               *)
(***************************************************************************)
InitDetect ==
    /\ SessionsIdle
    /\ user_prompt \in Utterances
    /\ min_confidence \in MinConfidences
    /\ score_margin \in ScoreMargins
    /\ classifier_call = NotInvoked
    /\ detect_result = NoIntents
    /\ detect_pc = "ready"
    /\ RankIdle
    /\ EngineIdle

\* one call of detect_intents; the classifier's answer is chosen when it is called
DetectIntents ==
    /\ UNCHANGED session_vars
    /\ detect_pc = "ready"
    /\ LET keyword_matches == detect_by_keywords(user_prompt)
       IN  IF keyword_matches = <<>>
           THEN \E call \in ClassifierOutcomes :
                    /\ classifier_call' = call
                    /\ detect_result' =
                           intents_from(<<>>, min_confidence, score_margin, call)
           ELSE /\ classifier_call' = classifier_call
                /\ detect_result' =
                       intents_from(keyword_matches, min_confidence, score_margin, NotInvoked)
    /\ detect_pc' = "returned"
    /\ UNCHANGED <<user_prompt, min_confidence, score_margin>>
    /\ UNCHANGED <<rank_vars, engine_vars>>

NextDetect == DetectIntents

SpecDetect == InitDetect /\ [][NextDetect]_vars

(***************************************************************************)
(* SpecRank: rank_documents applied to every bounded corpus and argument   *)
(***************************************************************************)
InitRank ==
    /\ SessionsIdle
    /\ corpus \in Corpora
    /\ rank_folders \in FolderLists
    /\ top_k \in TopKs
    /\ min_similarity \in MinSimilarities
    /\ query_embedding = NotEmbedded
    /\ rank_result = NoRanking
    /\ rank_pc = "ready"
    /\ DetectIdle
    /\ EngineIdle

\* one call of rank_documents; the embedder's answer for the query is chosen
\* when it is called
RankDocuments ==
    /\ UNCHANGED session_vars
    /\ rank_pc = "ready"
    /\ \E query \in EmbeddingOutcomes :
           /\ query_embedding' = query
           /\ rank_result' =
                  rank_documents(query, corpus, rank_folders, top_k, min_similarity)
    /\ rank_pc' = "returned"
    /\ UNCHANGED <<corpus, rank_folders, top_k, min_similarity>>
    /\ UNCHANGED <<detect_vars, engine_vars>>

NextRank == RankDocuments

SpecRank == InitRank /\ [][NextRank]_vars

(***************************************************************************)
(* Spec: a session of ChatEngine.process_user_input calls.  A call passes  *)
(* through the stages of the method body, one action per stage; the calls  *)
(* of a session do not overlap.                                            *)
(***************************************************************************)
Init ==
    /\ SessionsIdle
    /\ pc = "AWAITING_INPUT"
    /\ llm \in BOOLEAN
    /\ corpus \in TurnCorpora
    /\ user_input = <<>>
    /\ user_data = {}
    /\ memory = <<>>
    /\ memory_at_call = <<>>
    /\ backend_call = BackendNotInvoked
    /\ response = <<>>
    /\ reply = <<>>
    /\ call_outcome = "none"
    /\ displayed = <<>>
    /\ turns = 0
    /\ prompt_log = <<>>
    /\ stage_log = <<>>
    /\ DetectIdle
    /\ rank_folders = <<>>
    /\ top_k = EngineTopK
    /\ min_similarity = DefaultMinSimilarity
    /\ query_embedding = NotEmbedded
    /\ rank_result = NoRanking
    /\ rank_pc = "idle"

\* the call ends: with `end` (what it returns or raises, and what it shows)
EndCall(end) ==
    /\ reply' = end.reply
    /\ call_outcome' = end.outcome
    /\ displayed' = displayed \o end.shown
    /\ pc' = "AWAITING_INPUT"
    /\ turns' = turns + 1

\* the UI calls process_user_input(prompt, user_data)
ProcessUserInput(utterance, profile) ==
    /\ UNCHANGED session_vars
    /\ pc = "AWAITING_INPUT"
    /\ turns < MaxTurns
    /\ pc' = "DETECTING"
    /\ user_input' = utterance
    /\ user_data' = profile
    /\ memory_at_call' = memory
    /\ backend_call' = BackendNotInvoked
    /\ response' = <<>>
    /\ reply' = <<>>
    /\ call_outcome' = "running"
    /\ displayed' = <<>>
    /\ stage_log' = <<>>
    /\ user_prompt' = utterance
    /\ min_confidence' = DefaultMinConfidence
    /\ score_margin' = DefaultScoreMargin
    /\ classifier_call' = NotInvoked
    /\ detect_result' = NoIntents
    /\ detect_pc' = "ready"
    /\ rank_folders' = <<>>
    /\ query_embedding' = NotEmbedded
    /\ rank_result' = NoRanking
    /\ rank_pc' = "idle"
    /\ UNCHANGED <<llm, memory, turns, corpus, top_k, min_similarity, prompt_log>>

\* intents = self.intent_detector.detect_intents(user_input)
Detect ==
    /\ UNCHANGED session_vars
    /\ pc = "DETECTING"
    /\ LET keyword_matches == detect_by_keywords(user_prompt)
       IN  IF keyword_matches = <<>>
           THEN \E call \in TurnClassifierOutcomes :
                    /\ classifier_call' = call
                    /\ detect_result' =
                           intents_from(<<>>, min_confidence, score_margin, call)
           ELSE /\ classifier_call' = classifier_call
                /\ detect_result' =
                       intents_from(keyword_matches, min_confidence, score_margin,
                                    NotInvoked)
    /\ detect_pc' = "returned"
    /\ stage_log' = stage_log \o <<"classify">>
    /\ IF detect_result'.method = "exception"
       THEN /\ EndCall(handle_exception(detect_result'.details[1]))
            /\ UNCHANGED rank_pc
       ELSE /\ displayed' = displayed \o detect_messages(detect_result', classifier_call')
            /\ pc' = "RETRIEVING"
            /\ rank_pc' = "ready"
            /\ UNCHANGED <<reply, call_outcome, turns>>
    /\ UNCHANGED <<user_prompt, min_confidence, score_margin>>
    /\ UNCHANGED <<corpus, rank_folders, top_k, min_similarity, query_embedding,
                   rank_result>>
    /\ UNCHANGED <<llm, user_input, user_data, memory, memory_at_call, backend_call,
                   response, prompt_log>>

\* matched_docs = self.document_processor.rank_documents(user_input,
\* intents.get('folders', []), top_k=3), then `if matched_docs and self.llm`
\* with the fallback reply of its else branch
Retrieve ==
    /\ UNCHANGED session_vars
    /\ pc = "RETRIEVING"
    /\ rank_folders' = folders_searched(detect_result)
    /\ \E query \in EmbeddingOutcomes :
           /\ query_embedding' = query
           /\ rank_result' =
                  rank_documents(query, corpus, rank_folders', top_k,
                                 min_similarity)
    /\ rank_pc' = "returned"
    /\ stage_log' = stage_log \o <<"rank">>
    /\ LET shown == rank_messages(query_embedding', corpus, rank_folders',
                                  min_similarity)
       IN  IF rank_result'.raised
           THEN LET end == handle_exception(rank_result'.error)
                IN  EndCall(CallEnd(end.outcome, end.reply, shown \o end.shown))
           ELSE IF should_generate(rank_result'.docs, llm)
           THEN /\ pc' = "GENERATING"
                /\ displayed' = displayed \o shown
                /\ UNCHANGED <<reply, call_outcome, turns>>
           ELSE EndCall(CallEnd("returned",
                                generate_fallback_response(detect_result, user_data),
                                shown))
    /\ UNCHANGED <<corpus, top_k, min_similarity>>
    /\ UNCHANGED detect_vars
    /\ UNCHANGED <<llm, user_input, user_data, memory, memory_at_call, backend_call,
                   response, prompt_log>>

\* the retriever is built, the prompt is built and the chain is run; the chain
\* saves the exchange in self.memory when the run succeeds
Generate ==
    /\ UNCHANGED session_vars
    /\ pc = "GENERATING"
    /\ LET enhanced_prompt ==
               build_professional_prompt(user_input, user_data, detect_result)
       IN  /\ prompt_log' =
                  Append(prompt_log,
                         [user_question |-> user_input, user_data |-> user_data,
                          intents |-> detect_result, prompt |-> enhanced_prompt])
           /\ user_data' = profile_after_build_prompt(user_data)
           /\ \E outcome \in BackendOutcomes :
                  /\ backend_call' = outcome
                  /\ IF outcome.status = "raised"
                     THEN /\ EndCall(handle_exception(outcome.error))
                          /\ stage_log' = stage_log \o <<"generate">>
                          /\ UNCHANGED <<response, memory>>
                     ELSE /\ response' = outcome.text
                          /\ memory' =
                                 chain_save_context(memory, enhanced_prompt,
                                                    outcome.text)
                          /\ stage_log' =
                                 stage_log \o <<"generate", "memory-append">>
                          /\ pc' = "ENHANCING"
                          /\ UNCHANGED <<reply, call_outcome, displayed, turns>>
    /\ UNCHANGED <<detect_vars, rank_vars>>
    /\ UNCHANGED <<llm, user_input, memory_at_call>>

\* enhanced_response = self.response_enhancer.enhance_response(response,
\* intents, user_data); return enhanced_response
Enhance ==
    /\ UNCHANGED session_vars
    /\ pc = "ENHANCING"
    /\ stage_log' = stage_log \o <<"enhance">>
    /\ user_data' = profile_after_enhance(user_data)
    /\ \E fault \in EnhancerFaults :
           IF fault # ""
           THEN EndCall(handle_exception(fault))
           ELSE \E pick \in 1..2, tagline \in BOOLEAN :
                    EndCall(CallEnd("returned",
                                    enhance_response(response, detect_result,
                                                     user_data, pick, tagline),
                                    <<>>))
    /\ UNCHANGED <<detect_vars, rank_vars>>
    /\ UNCHANGED <<llm, user_input, memory, memory_at_call, backend_call,
                   response, prompt_log>>

Next ==
    \/ \E utterance \in TurnUtterances, profile \in TurnProfiles :
           ProcessUserInput(utterance, profile)
    \/ Detect
    \/ Retrieve
    \/ Generate
    \/ Enhance

Spec == Init /\ [][Next]_vars

(***************************************************************************)
(* SpecEnhance: enhance_response applied, as the engine applies it, to     *)
(* every bounded raw reply, intent result and user profile                 *)
(***************************************************************************)
\* raw replies of the backend: plain, opening with a greeting, naming the
\* user, opening with a word that begins with "Hi", with markdown headers,
\* bullets, a run of newlines and trailing whitespace, blank, a bare greeting,
\* with both greeting words, with a bare header line above a header, empty
RawReplies ==
    {<<"W","e"," ","b","u","i","l","d"," ","A","I"," ","c","h","a","t","b","o","t","s",".">>,
     <<"H","e","l","l","o","!"," ","O","u","r"," ","b","u","s","i","n","e","s","s"," ","i","s"," ","a","u","t","o","m","a","t","i","o","n",".">>,
     <<"H","i"," ","t","h","e","r","e",","," ","a","s","k"," ","A","s","h","a",".">>,
     <<"H","i","s","t","o","r","y"," ","m","a","t","t","e","r","s",".">>,
     <<"P","l","a","n","s",":","\n","#"," ","N","o","w","\n","-"," ","b","u","i","l","d","\n","*"," ","t","e","s","t","\n","\n","\n","\n","D","o","n","e","."," ","\n">>,
     <<" ","\n">>,
     <<"H","i">>,
     <<"H","e","l","l","o","!"," ","H","i","-","t","e","c","h",".">>,
     <<"A","\n","#","\n","#"," ","B">>,
     <<>>}

EnhanceClassifierOutcomes ==
    {MakeClassifierResult(<<GeneralCategory>>, <<90>>),
     MakeClassifierResult(<<"career opportunities, vacancies, and recruitment">>, <<90>>),
     MakeClassifierResult(<<"success stories and client achievements">>, <<90>>),
     MakeClassifierResult(<<"company blog posts",
                            "services offered by the company">>, <<50, 50>>),
     MakeClassifierResult(<<"career opportunities, vacancies, and recruitment",
                            "services offered by the company">>, <<50, 50>>)}

EnhanceProfiles ==
    {{}, ProfileClient, {<<"name", NameAsha>>, <<"user_type", <<"job_seeker">>>>},
     {<<"user_type", <<"information_seeker">>>>}}

InitEnhance ==
    /\ SessionsIdle
    /\ pc = "ENHANCING"
    /\ llm = TRUE
    /\ user_input = UtteranceHello
    /\ user_data \in EnhanceProfiles
    /\ response \in RawReplies
    /\ classifier_call \in EnhanceClassifierOutcomes
    /\ user_prompt = user_input
    /\ min_confidence = DefaultMinConfidence
    /\ score_margin = DefaultScoreMargin
    /\ detect_result = detect_by_ml(classifier_call, min_confidence, score_margin)
    /\ detect_pc = "returned"
    /\ backend_call = BackendAnswered(response)
    /\ prompt_log =
          <<[user_question |-> user_input, user_data |-> user_data,
             intents |-> detect_result,
             prompt |-> build_professional_prompt(user_input, user_data,
                                                  detect_result)]>>
    /\ memory = chain_save_context(<<>>, prompt_log[1].prompt, response)
    /\ memory_at_call = <<>>
    /\ reply = <<>>
    /\ call_outcome = "running"
    /\ displayed = detect_messages(detect_result, classifier_call)
    /\ turns = 0
    /\ stage_log = <<"classify", "rank", "generate", "memory-append">>
    /\ corpus =
          [existing |-> AllFolders,
           files |-> <<[folder |-> detect_result.folders[1], name |-> "about.txt",
                        status |-> "ok", content |-> DocText, similarity |-> 40,
                        error |-> ""]>>]
    /\ rank_folders = detect_result.folders
    /\ top_k = EngineTopK
    /\ min_similarity = DefaultMinSimilarity
    /\ query_embedding = EmbeddingOk
    /\ rank_result =
          rank_documents(query_embedding, corpus, rank_folders, top_k,
                         min_similarity)
    /\ rank_pc = "returned"

NextEnhance == Enhance

SpecEnhance == InitEnhance /\ [][NextEnhance]_vars

(***************************************************************************)
(* SpecPrompt: build_professional_prompt applied to every bounded user     *)
(* profile                                                                 *)
(***************************************************************************)
\* what a profile can hold under a key: nothing, an empty string, or a value
\* (for the email also an address without '@' and one with nothing after it)
FieldValues(key) ==
    CASE key = "name" -> {<<>>, NameAsha}
      [] key = "email" -> {<<>>, <<"asha", "@", "acme.example">>, <<"asha">>,
                           <<"asha", "@">>}
      [] key = "user_type" -> {<<>>, <<"job_seeker">>}
      [] key = "company_size" -> {<<>>, <<"11-50">>}
      [] key = "selected_service" -> {<<>>, <<"AI Chatbots">>}
      [] key = "timestamp" -> {<<"2025-01-01T00:00:00">>}

ContextKeys == {"name", "email", "user_type", "company_size", "selected_service"}

\* a key the profile does not have
Absent == <<"(absent)">>

Field(key, value) == IF value = Absent THEN {} ELSE {<<key, value>>}

\* the profiles: each key absent or with one of its values
PromptProfiles ==
    {Field("name", n) \cup Field("email", e) \cup Field("user_type", t)
        \cup Field("company_size", c) \cup Field("selected_service", v)
        \cup Field("timestamp", ts) :
        n \in {Absent} \cup FieldValues("name"),
        e \in {Absent} \cup FieldValues("email"),
        t \in {Absent} \cup FieldValues("user_type"),
        c \in {Absent} \cup FieldValues("company_size"),
        v \in {Absent} \cup FieldValues("selected_service"),
        ts \in {Absent} \cup FieldValues("timestamp")}

PromptIntents ==
    {get_fallback_intent,
     detect_by_ml(MakeClassifierResult(
                      <<"career opportunities, vacancies, and recruitment">>, <<90>>),
                  DefaultMinConfidence, DefaultScoreMargin)}

InitPrompt ==
    /\ SessionsIdle
    /\ DetectIdle
    /\ RankIdle
    /\ pc = "AWAITING_INPUT"
    /\ llm = TRUE
    /\ user_input = UtteranceHello
    /\ user_data \in PromptProfiles
    /\ memory = <<>>
    /\ memory_at_call = <<>>
    /\ backend_call = BackendNotInvoked
    /\ response = <<>>
    /\ reply = <<>>
    /\ call_outcome = "none"
    /\ displayed = <<>>
    /\ turns = 0
    /\ prompt_log = <<>>
    /\ stage_log = <<>>

\* one call of build_professional_prompt(user_question, user_data, intents)
BuildPrompt ==
    /\ prompt_log = <<>>
    /\ \E intents \in PromptIntents :
          prompt_log' =
              <<[user_question |-> user_input, user_data |-> user_data,
                 intents |-> intents,
                 prompt |-> build_professional_prompt(user_input, user_data, intents)]>>
    /\ UNCHANGED <<detect_vars, rank_vars, session_vars>>
    /\ UNCHANGED <<pc, llm, user_input, user_data, memory, memory_at_call,
                   backend_call, response, reply, call_outcome, displayed, turns,
                   stage_log>>

NextPrompt == BuildPrompt

SpecPrompt == InitPrompt /\ [][NextPrompt]_vars

(***************************************************************************)
(* SpecSessions: browser sessions of the app running concurrently.  Every  *)
(* session has its own st.session_state, in which app/main.py puts a       *)
(* SessionManager and a ChatEngine; the script of a session runs from one  *)
(* user action to the next, and the scripts of different sessions          *)
(* interleave.  A call of process_user_input is taken here by its effect   *)
(* on the engine's memory and by the reply it returns.                     *)
(***************************************************************************)
Sessions == 1..NumSessions

\* the character classes of the pattern of validate_email
Letters == DOMAIN UpperToLower \cup {UpperToLower[c] : c \in DOMAIN UpperToLower}
Digits == {"0", "1", "2", "3", "4", "5", "6", "7", "8", "9"}
LocalChars == Letters \cup Digits \cup {".", "_", "%", "+", "-"}
DomainChars == Letters \cup Digits \cup {".", "-"}

\* utils/validation.py: `if not email: return False`, then
\* re.match(r'^[a-zA-Z0-9._%+-]+@[a-zA-Z0-9.-]+\.[a-zA-Z]{2,}$', email);
\* '$' also matches before a newline that ends the string
validate_email(email) ==
    /\ email # <<>>
    /\ \E end \in {Len(email)}
                  \cup (IF email[Len(email)] = Newline THEN {Len(email) - 1} ELSE {}) :
          \E at \in 2..end, dot \in 2..end :
              /\ email[at] = "@"
              /\ email[dot] = "."
              /\ at + 1 < dot
              /\ dot + 2 <= end
              /\ \A i \in 1..(at - 1) : email[i] \in LocalChars
              /\ \A i \in (at + 1)..(dot - 1) : email[i] \in DomainChars
              /\ \A i \in (dot + 1)..end : email[i] \in Letters

EmailAsha == <<"a", "@", "b", ".", "c", "o">>

\* SessionManager.set_user_data: self.user_data[key] = value
set_user_data(dict, key, value) ==
    {p \in dict : p[1] # key} \cup {<<key, value>>}

\* a sequence of set_user_data calls, and the number of them that log a line
\* (`if old_value != value`; a key that is not there reads as None)
RECURSIVE SetAll(_, _)
SetAll(dict, pairs) ==
    IF pairs = <<>> THEN dict
    ELSE SetAll(set_user_data(dict, Head(pairs)[1], Head(pairs)[2]), Tail(pairs))

Changes(dict, pairs) ==
    Cardinality({i \in 1..Len(pairs) : <<pairs[i][1], pairs[i][2]>> \notin dict})

\* what the guided flow of the stored user type stores before the chat
\* starts (utils/guided_flows.py); the general flow stores nothing
FlowSelections(profile) ==
    LET user_type == Get(profile, "user_type")
    IN  IF user_type = <<"potential_client">>
        THEN << <<"selected_service", <<"AI & Automation">>>>,
                <<"company_size", <<"Startup (1-10 employees)">>>>,
                <<"budget", <<"Under $10K">>>>, <<"timeline", <<"ASAP">>>> >>
        ELSE IF user_type = <<"job_seeker">>
        THEN << <<"experience", <<"Fresh Graduate">>>>, <<"skills", <<"Python">>>>,
                <<"role_type", <<"Full-time">>>> >>
        ELSE IF user_type = <<"information_seeker">>
        THEN << <<"info_topic", <<"About the Company">>>> >>
        ELSE <<>>

\* an add_turn that numbers the turn by the counter before incrementing it
add_turn_numbered_by_counter(session, bot, user) ==
    [session EXCEPT
        !.conversation = Append(@, [turn |-> session.counter, bot |-> bot,
                                    user |-> user]),
        !.counter = @ + 1]

\* SessionManager.add_turn(bot, user)
add_turn(session, bot, user) ==
    [session EXCEPT
        !.conversation = Append(@, [turn |-> Len(session.conversation) + 1,
                                    bot |-> bot, user |-> user]),
        !.counter = @ + 1]

\* a ChatEngine that one module-level object provides to every session
chat_engine_shared(s) == 1

\* st.session_state.chat_engine = ChatEngine(config), once per session
chat_engine_of(s) == s

SessionUserTypes == {"potential_client", "job_seeker"}

\* what process_user_input(prompt, user_data) can do: answer through the chain
\* (which saves the exchange in the engine's memory) or answer without it (of
\* which the fallback text is taken)
TurnOutcomes(prompt, profile) ==
    LET intents == get_fallback_intent
    IN  {[reply |-> enhance_response(ReplyPlain, intents, profile, 1, FALSE),
          saved |-> TRUE,
          question |-> build_professional_prompt(prompt, profile, intents),
          answer |-> ReplyPlain],
         [reply |-> generate_fallback_response(intents, profile),
          saved |-> FALSE, question |-> <<>>, answer |-> <<>>]}

\* st.session_state of a session whose script has not run a stage yet, with
\* the SessionManager main() puts in it
FreshSession(chat_engine) ==
    [chat_stage |-> "welcome", run |-> "idle", user_type |-> "",
     selected_service |-> "", chat_engine |-> chat_engine, prompt |-> <<>>,
     response |-> <<>>, messages |-> <<>>, conversation |-> <<>>, counter |-> 0,
     user_data |-> {}]

InitSessions ==
    /\ sessions = [s \in Sessions |-> FreshSession(chat_engine_of(s))]
    /\ engines = [e \in {chat_engine_of(s) : s \in Sessions} |-> [memory |-> <<>>]]
    /\ analytics_lines = NumSessions
    /\ DetectIdle
    /\ RankIdle
    /\ EngineIdle

\* display_welcome_stage: one of the buttons is pressed
ChooseUserType(s, user_type) ==
    /\ sessions[s].chat_stage = "welcome"
    /\ sessions' = [sessions EXCEPT ![s].user_type = user_type,
                                    ![s].chat_stage = "email_collection"]
    /\ UNCHANGED <<engines, analytics_lines>>

\* display_email_collection_stage: Continue is pressed.  An address that
\* does not validate shows an error and changes nothing; otherwise each of the
\* four set_user_data calls changes a value and so logs one analytics line
SubmitDetails(s, name, email) ==
    /\ sessions[s].chat_stage = "email_collection"
    /\ IF validate_email(email)
       THEN /\ sessions' =
                  [sessions EXCEPT
                      ![s].user_data =
                          SetAll(@, << <<"email", email>>, <<"name", name>>,
                                       <<"user_type", <<sessions[s].user_type>>>>,
                                       <<"timestamp", <<"2025-01-01T00:00:00">>>> >>),
                      ![s].chat_stage = "service_selection"]
            /\ analytics_lines' = analytics_lines + 4
       ELSE UNCHANGED <<sessions, analytics_lines>>
    /\ UNCHANGED engines

\* display_service_selection_stage: the button that ends the flow of the
\* stored user type is pressed (the general flow when none is stored); the
\* guided flows store their selections first, and the chat opens with its
\* greeting when it has no messages yet
StartChat(s) ==
    /\ sessions[s].chat_stage = "service_selection"
    /\ LET selections == FlowSelections(sessions[s].user_data)
       IN  /\ sessions' =
                 [sessions EXCEPT
                     ![s].user_data = SetAll(@, selections),
                     ![s].chat_stage = "chat_active",
                     ![s].messages =
                         IF @ = <<>>
                         THEN <<[role |-> "assistant", content |-> <<"Hello">>]>>
                         ELSE @]
           /\ analytics_lines' =
                 analytics_lines + Changes(sessions[s].user_data, selections)
    /\ UNCHANGED engines

\* display_sidebar: one of the service buttons is pressed, in whatever stage
\* the session is
SidebarService(s, service) ==
    /\ sessions[s].run = "idle"
    /\ sessions' = [sessions EXCEPT ![s].selected_service = service,
                                    ![s].chat_stage = "service_selection"]
    /\ UNCHANGED <<engines, analytics_lines>>

\* display_active_chat_stage: st.chat_input returns a prompt
SubmitPrompt(s, prompt) ==
    /\ sessions[s].chat_stage = "chat_active"
    /\ sessions[s].run = "idle"
    /\ sessions' =
          [sessions EXCEPT
              ![s].prompt = prompt,
              ![s].messages = Append(@, [role |-> "user", content |-> prompt]),
              ![s].run = "processing"]
    /\ UNCHANGED <<engines, analytics_lines>>

\* response = chat_engine.process_user_input(prompt, user_data)
ProcessTurn(s) ==
    /\ sessions[s].run = "processing"
    /\ \E outcome \in TurnOutcomes(sessions[s].prompt, sessions[s].user_data) :
          /\ sessions' = [sessions EXCEPT ![s].response = outcome.reply,
                                          ![s].run = "logging"]
          /\ engines' =
                IF outcome.saved
                THEN [engines EXCEPT
                         ![sessions[s].chat_engine].memory =
                             chain_save_context(@, outcome.question, outcome.answer)]
                ELSE engines
    /\ UNCHANGED analytics_lines

\* the response is added to the messages and session_manager.add_turn logs it
LogTurn(s) ==
    /\ sessions[s].run = "logging"
    /\ sessions' =
          [sessions EXCEPT
              ![s] = [add_turn(@, sessions[s].response, sessions[s].prompt)
                         EXCEPT !.messages =
                                    Append(@, [role |-> "assistant",
                                               content |-> sessions[s].response]),
                                !.run = "idle"]]
    /\ analytics_lines' = analytics_lines + 1
    /\ UNCHANGED engines

\* the New Topic button of the active chat
NewTopic(s) ==
    /\ sessions[s].chat_stage = "chat_active"
    /\ sessions[s].run = "idle"
    /\ sessions' =
          [sessions EXCEPT
              ![s].messages =
                  <<[role |-> "assistant",
                     content |-> <<"What else would you like to know about Sundew Solutions?">>]>>]
    /\ UNCHANGED <<engines, analytics_lines>>

\* the Contact Sales and View Careers buttons of the active chat: a canned
\* exchange is added to the messages
CannedExchange(s, question, answer) ==
    /\ sessions[s].chat_stage = "chat_active"
    /\ sessions[s].run = "idle"
    /\ Len(sessions[s].messages) < MaxMessages
    /\ sessions' =
          [sessions EXCEPT
              ![s].messages = @ \o <<[role |-> "user", content |-> question],
                                     [role |-> "assistant", content |-> answer]>>]
    /\ UNCHANGED <<engines, analytics_lines>>

ContactSales(s) ==
    CannedExchange(s,
        <<"I'd like to speak with your sales team about your services. Please provide me with contact details.">>,
        <<"Great! You can reach our sales team at sales@sundewsolutions.com or call us at +91-XXXXXXXXXX. Someone will get back to you within 24 hours. What specific services are you interested in?">>)

ViewCareers(s) ==
    CannedExchange(s,
        <<"I'm interested in career opportunities at Sundew Solutions.">>,
        <<"Excellent! We're always looking for talented individuals. Check out our careers page at https://sundewsolutions.com/careers for current openings. You can also send your resume to hr@sundewsolutions.com. What type of role are you looking for?">>)

\* one step of the script of session s, along the main path of the flow (the
\* whole flow of one session, with every button, is SpecStages)
SessionStep(s) ==
    \/ \E user_type \in SessionUserTypes : ChooseUserType(s, user_type)
    \/ SubmitDetails(s, NameAsha, EmailAsha)
    \/ StartChat(s)
    \/ /\ Len(sessions[s].conversation) < MaxSessionTurns
       /\ SubmitPrompt(s, UtteranceHello)
    \/ ProcessTurn(s)
    \/ LogTurn(s)

NextSessions ==
    /\ \E s \in Sessions : SessionStep(s)
    /\ UNCHANGED <<detect_vars, rank_vars, engine_vars>>

SpecSessions == InitSessions /\ [][NextSessions]_vars

(***************************************************************************)
(* SpecStages: the script of one browser session with every button of the  *)
(* stage flow (welcome, email_collection, service_selection, chat_active)  *)
(* and of the sidebar.  A script run is taken to run to its end.           *)
(***************************************************************************)
StageUserTypes == {"potential_client", "information_seeker", "job_seeker", "general"}

\* what is typed into the email field: nothing, an address, an address
\* without a top-level domain
StageEmails == {<<>>, EmailAsha, <<"a", "@", "b">>}

StageNames == {<<>>, NameAsha}

SidebarServices == {"AI Chatbots", "Web Development"}

InitStages ==
    /\ sessions = [s \in {1} |-> FreshSession(1)]
    /\ engines = [e \in {1} |-> [memory |-> <<>>]]
    /\ analytics_lines = 1
    /\ DetectIdle
    /\ RankIdle
    /\ EngineIdle

NextStages ==
    /\ \/ \E user_type \in StageUserTypes : ChooseUserType(1, user_type)
       \/ \E name \in StageNames, email \in StageEmails : SubmitDetails(1, name, email)
       \/ StartChat(1)
       \/ \E service \in SidebarServices : SidebarService(1, service)
       \/ /\ Len(sessions[1].conversation) < MaxStageTurns
          /\ SubmitPrompt(1, UtteranceHello)
       \/ ProcessTurn(1)
       \/ LogTurn(1)
       \/ NewTopic(1)
       \/ ContactSales(1)
       \/ ViewCareers(1)
    /\ UNCHANGED <<detect_vars, rank_vars, engine_vars>>

SpecStages == InitStages /\ [][NextStages]_vars

(***************************************************************************)
(* Properties of detect_intents (checked under SpecDetect)                 *)
(***************************************************************************)
\* some keyword of the category at position i of the table occurs in the
\* (lowered) prompt, compared case-insensitively
HasKeywordIn(prompt_lower, i) ==
    \E k \in 1..Len(category_keywords[i].keywords) :
        Contains(prompt_lower, Lower(category_keywords[i].keywords[k]))

\* positions (in configured order) of the categories with a keyword in the prompt
MatchingPositions(prompt) ==
    LET prompt_lower == Lower(prompt)
    IN  {i \in 1..Len(category_keywords) : HasKeywordIn(prompt_lower, i)}

\* C2: if at least one configured keyword occurs case-insensitively in the
\* utterance, detect_intents returns method 'keyword' with confidence 1.0, its
\* categories are exactly the categories with a matching keyword, each once, in
\* configured order, and the classifier is not invoked.
C2_KeywordPassExact ==
    detect_pc = "returned" =>
        LET M == MatchingPositions(user_prompt)
        IN  M # {} =>
              /\ detect_result.method = "keyword"
              /\ detect_result.confidence = FullConfidence
              /\ Len(detect_result.categories) = Cardinality(M)
              /\ \A n \in 1..Len(detect_result.categories) :
                     \E i \in M :
                        /\ detect_result.categories[n] = category_keywords[i].category
                        /\ Cardinality({j \in M : j < i}) = n - 1
              /\ classifier_call = NotInvoked

\* two categories matched, one of them only through lowering the utterance
C2_Witness ==
    /\ detect_pc = "returned"
    /\ detect_result.method = "keyword"
    /\ Len(detect_result.categories) >= 2
    /\ user_prompt # Lower(user_prompt)

\* C3 as stated: for every keyword that occurs in the utterance, method is
\* 'keyword' and that keyword's category is the FIRST returned category.
C3_Original_KeywordCategoryFirst ==
    detect_pc = "returned" =>
        \A i \in MatchingPositions(user_prompt) :
            /\ detect_result.method = "keyword"
            /\ detect_result.categories[1] = category_keywords[i].category

\* C3 amended: for every keyword that occurs in the utterance, method is
\* 'keyword' and that keyword's category is among the returned categories; the
\* first returned category is the first category, in configured order, that has
\* a keyword in the utterance.
C3_KeywordCategoryIncluded ==
    detect_pc = "returned" =>
        LET M == MatchingPositions(user_prompt)
        IN  \A i \in M :
              /\ detect_result.method = "keyword"
              /\ category_keywords[i].category \in Range(detect_result.categories)
              /\ \E f \in M :
                     /\ \A j \in M : f <= j
                     /\ detect_result.categories[1] = category_keywords[f].category

\* an utterance with keywords of the blog and the career category
C3_Witness ==
    /\ detect_pc = "returned"
    /\ detect_result.categories =
           <<"company blog posts", "career opportunities, vacancies, and recruitment">>

\* C4: when no keyword matches and the classifier call raises, detect_intents
\* does not raise and returns method 'fallback', confidence 1.0 and the single
\* category 'general information about the company'.
C4_ClassifierFailureFallsBack ==
    (detect_pc = "returned" /\ classifier_call.status = "raised") =>
        /\ detect_result.method = "fallback"
        /\ detect_result.confidence = FullConfidence
        /\ detect_result.categories = <<"general information about the company">>

C4_Witness ==
    /\ detect_pc = "returned"
    /\ classifier_call.status = "raised"
    /\ MatchingPositions(user_prompt) = {}

\* C5: every result of detect_intents (keyword, classifier, fallback path) is
\* well formed: categories non-empty without duplicates, folders of the same
\* length with the configured folder of each category, confidence in [0,1].
C5_IntentResultWellFormed ==
    detect_pc = "returned" =>
        /\ detect_result.method \in {"keyword", "ml", "fallback"}
        /\ detect_result.categories # <<>>
        /\ NoDuplicates(detect_result.categories)
        /\ Len(detect_result.folders) = Len(detect_result.categories)
        /\ \A n \in 1..Len(detect_result.categories) :
               /\ detect_result.categories[n] \in Range(categories)
               /\ detect_result.folders[n] = category_folders(detect_result.categories[n])
        /\ detect_result.confidence \in 0..FullConfidence

\* the classifier path returned two near-tied categories
C5_Witness ==
    /\ detect_pc = "returned"
    /\ detect_result.method = "ml"
    /\ classifier_call.status = "ok"
    /\ Len(detect_result.categories) = 2

(***************************************************************************)
(* Properties of rank_documents (checked under SpecRank)                   *)
(***************************************************************************)
RankReturned == rank_pc = "returned" /\ ~rank_result.raised

Similarities(docs) == [n \in 1..Len(docs) |-> docs[n].similarity]
FileNamesOf(docs) == {docs[n].filename : n \in 1..Len(docs)}

\* the files of the listed folders that can be read and whose similarity
\* reaches the threshold
ReadableAboveThreshold ==
    {i \in 1..Len(corpus.files) :
        /\ corpus.files[i].folder \in Range(rank_folders)
        /\ corpus.files[i].status = "ok"
        /\ corpus.files[i].similarity >= min_similarity}

\* those of them that are not blank
Retained ==
    {i \in ReadableAboveThreshold : Strip(corpus.files[i].content) # <<>>}

Smaller(a, b) == IF a < b THEN a ELSE b

\* C6: every list returned by rank_documents is sorted non-increasing by
\* similarity, holds only documents of the corpus whose similarity is
\* >= min_similarity, and has length <= top_k.
C6_RankedListSortedThresholdedBounded ==
    RankReturned =>
        LET docs == rank_result.docs
        IN  /\ \A i, j \in 1..Len(docs) :
                   i < j => docs[i].similarity >= docs[j].similarity
            /\ \A n \in 1..Len(docs) :
                   /\ docs[n].similarity >= min_similarity
                   /\ \E i \in 1..Len(corpus.files) :
                          /\ corpus.files[i].name = docs[n].filename
                          /\ corpus.files[i].similarity = docs[n].similarity
            /\ Len(docs) <= top_k

\* three files enumerated in ascending similarity, the first below the threshold
C6_Witness ==
    /\ RankReturned
    /\ min_similarity = 40
    /\ Len(corpus.files) = 3
    /\ corpus.files[1].status = "ok" /\ corpus.files[1].similarity = 21
    /\ Similarities(rank_result.docs) = <<91, 40>>
    /\ rank_result.docs[1].filename = corpus.files[3].name

\* C7 as stated: the readable documents of the given folders with similarity
\* >= min_similarity are all returned when there are at most top_k of them;
\* when there are more, top_k are returned and no omitted one has a strictly
\* higher similarity than a returned one.
C7_Original_TopKOfReadable ==
    RankReturned =>
        LET docs == rank_result.docs
            Q == ReadableAboveThreshold
        IN  /\ Len(docs) = Smaller(top_k, Cardinality(Q))
            /\ Cardinality(Q) <= top_k =>
                   \A i \in Q : corpus.files[i].name \in FileNamesOf(docs)
            /\ \A i \in Q :
                   corpus.files[i].name \notin FileNamesOf(docs) =>
                       \A n \in 1..Len(docs) :
                           corpus.files[i].similarity <= docs[n].similarity

\* C7 amended: the same, of the readable documents that are not blank (whose
\* content is not empty after strip()).
C7_TopKOfRetained ==
    RankReturned =>
        LET docs == rank_result.docs
            Q == Retained
        IN  /\ Len(docs) = Smaller(top_k, Cardinality(Q))
            /\ Cardinality(Q) <= top_k =>
                   \A i \in Q : corpus.files[i].name \in FileNamesOf(docs)
            /\ \A i \in Q :
                   corpus.files[i].name \notin FileNamesOf(docs) =>
                       \A n \in 1..Len(docs) :
                           corpus.files[i].similarity <= docs[n].similarity

\* the scenario of the claim: similarities 0.40 and 0.91 (enumerated in that
\* order), threshold 0.21, top_k = 3
C7_Witness ==
    /\ RankReturned
    /\ top_k = 3
    /\ min_similarity = 21
    /\ Len(corpus.files) = 2
    /\ corpus.files[1].similarity = 40 /\ Strip(corpus.files[1].content) # <<>>
    /\ Similarities(rank_result.docs) = <<91, 40>>

\* more retained documents than top_k: the list is cut
C7_Witness_Truncated ==
    /\ RankReturned
    /\ Cardinality(Retained) > top_k
    /\ Len(rank_result.docs) = top_k

\* C8: rank_documents never raises because of the corpus: a folder that does
\* not exist or holds no text files contributes nothing, a file that cannot be
\* read is skipped, and the other files and folders are still ranked and
\* returned.
C8_CorpusFaultsSkipped ==
    (rank_pc = "returned" /\ query_embedding.status = "ok") =>
        LET docs == rank_result.docs
        IN  /\ ~rank_result.raised
            /\ Len(docs) = Smaller(top_k, Cardinality(Retained))
            /\ \A n \in 1..Len(docs) :
                   \E i \in Retained : corpus.files[i].name = docs[n].filename
            /\ \A m, n \in 1..Len(docs) :
                   m # n => docs[m].filename # docs[n].filename

\* one listed folder is missing, the other holds a failing file and a good one
C8_Witness ==
    /\ rank_pc = "returned"
    /\ query_embedding.status = "ok"
    /\ \E f \in Range(rank_folders) : f \notin corpus.existing
    /\ \E i \in 1..Len(corpus.files) :
           /\ corpus.files[i].status = "error"
           /\ corpus.files[i].folder \in Range(rank_folders)
    /\ rank_result.docs # <<>>

\* a listed folder exists and holds no text file, another one holds documents
C8_Witness_EmptyFolder ==
    /\ rank_pc = "returned"
    /\ query_embedding.status = "ok"
    /\ \E f \in Range(rank_folders) :
           f \in corpus.existing /\ TextFiles(corpus, f) = <<>>
    /\ rank_result.docs # <<>>

(***************************************************************************)
(* Properties of process_user_input (checked under Spec)                   *)
(***************************************************************************)
CallEnded == pc = "AWAITING_INPUT" /\ turns > 0

SomethingFailed ==
    \/ classifier_call.status = "raised"
    \/ rank_result.raised
    \/ backend_call.status = "raised"

ShownTexts == {displayed[i].text : i \in 1..Len(displayed)}

ErrorTextShown ==
    \E text \in ShownTexts : \E i \in 1..Len(text) :
        text[i] \in ErrorTexts \cup {"Connection timed out"}

\* C1: a call of process_user_input, whatever the classifier, the ranker,
\* the backend or the enhancer did during it, ends by returning a text reply;
\* it never ends by raising.
C1_AlwaysReturnsReply ==
    CallEnded => call_outcome = "returned" /\ reply \in Seq(STRING)

\* a call in which a component raised has ended with the apology returned
C1_Witness ==
    /\ CallEnded
    /\ rank_result.raised \/ backend_call.status = "raised"
    /\ call_outcome = "returned"
    /\ reply = Apology

\* C9: after every call, whichever reply it returns, the engine's memory has
\* gained exactly one new turn, made of the user's utterance and the reply
\* returned to the caller, and the earlier entries are unchanged.
C9_MemoryGainsTheTurn ==
    CallEnded =>
        memory = memory_at_call \o <<HumanMessage(user_input), AIMessage(reply)>>

\* C10: when the classifier, the ranker or the backend failed during the
\* turn, the reply is the fixed apology and nothing taken from the error is
\* put on the page.
C10_OnlyTheApologyOnFailure ==
    CallEnded /\ SomethingFailed => reply = Apology /\ ~ErrorTextShown

\* the call took the else branch of `if matched_docs and self.llm`
FallbackTaken ==
    /\ CallEnded
    /\ rank_pc = "returned"
    /\ ~rank_result.raised
    /\ rank_result.docs = <<>> \/ ~llm

GuidanceFor(category) ==
    CASE category = "services offered by the company" ->
           <<"We offer comprehensive digital transformation services including AI chatbots, custom web development, and automation solutions. ">>
      [] category = "career opportunities, vacancies, and recruitment" ->
           <<"We're always looking for talented individuals! Check out our careers page for current openings. ">>
      [] category = "case studies of past projects" ->
           <<"Our case studies showcase successful projects across various industries. ">>
      [] OTHER -> <<>>

\* C11: on the fallback path the reply contains the sales contact address,
\* its guidance sentence is the one of the first detected category (service,
\* career or case-study guidance, or none), and nothing in it comes from the
\* user profile.
C11_FallbackKeyedOnFirstCategory ==
    FallbackTaken =>
        /\ \E i \in 1..Len(reply) : reply[i] = "sales@sundewsolutions.com"
        /\ reply =
              <<"I'd be happy to help you with information about Sundew Solutions! ">>
              \o GuidanceFor(detect_result.categories[1])
              \o <<"For specific information, please contact our team at ",
                   "sales@sundewsolutions.com", " or visit our website.">>

\* a fallback reply for a named client whose first of two categories is the
\* services category
C11_Witness ==
    /\ FallbackTaken
    /\ user_data = ProfileClient
    /\ Len(detect_result.categories) = 2
    /\ detect_result.categories[1] = "services offered by the company"
    /\ detect_result.categories[2] = "case studies of past projects"

\* a fallback reply with career guidance and one with no guidance sentence
C11_Witness_Career ==
    /\ FallbackTaken
    /\ detect_result.categories[1] = "career opportunities, vacancies, and recruitment"

(***************************************************************************)
(* Properties of build_professional_prompt (checked under Spec, on the     *)
(* calls the engine makes)                                                 *)
(***************************************************************************)
PositionsOf(text, token) == {i \in 1..Len(text) : text[i] = token}

\* the one position of a token that occurs exactly once, 0 otherwise
PositionOf(text, token) ==
    IF Cardinality(PositionsOf(text, token)) = 1
    THEN CHOOSE i \in PositionsOf(text, token) : TRUE
    ELSE 0

BlocksInOrder(call) ==
    LET text == call.prompt
        persona == PositionOf(text, "        You are ")
        company == PositionOf(text, "        Company Context:")
        user == PositionOf(text, "User Context:")
        intent == PositionOf(text, "Detected Intent:")
        question == PositionOf(text, "User Question: ")
        instruction == PositionOf(text, "Provide a helpful, accurate response:")
    IN  /\ 0 < persona /\ persona < company /\ company < intent
        /\ intent < question /\ question < instruction
        /\ instruction = Len(text)
        /\ IF call.user_data = {} THEN PositionsOf(text, "User Context:") = {}
           ELSE company < user /\ user < intent
        /\ SubSeq(text, question + 1, question + Len(call.user_question))
              = call.user_question

EnhancedReturned ==
    /\ CallEnded
    /\ backend_call.status = "ok"
    /\ \A i \in 1..Len(displayed) : displayed[i].kind # "error"

NotSpace(c) == ~IsSpace(c)
NonWhitespace(text) == SelectSeq(text, NotSpace)

\* whether the tokens of part occur in whole, in the same order
RECURSIVE IsSubsequence(_, _)
IsSubsequence(part, whole) ==
    IF part = <<>> THEN TRUE
    ELSE IF whole = <<>> THEN FALSE
    ELSE IF Head(part) = Head(whole) THEN IsSubsequence(Tail(part), Tail(whole))
    ELSE IsSubsequence(part, Tail(whole))

\* C13: enhance_response removes no content of a non-empty raw reply: the
\* raw reply's non-whitespace characters all appear, in their order, in the
\* final reply, whose visible content is therefore not shorter.
C13_EnhanceRemovesNoContent ==
    EnhancedReturned /\ response # <<>> =>
        /\ IsSubsequence(NonWhitespace(response), NonWhitespace(reply))
        /\ Len(NonWhitespace(reply)) >= Len(NonWhitespace(response))

\* a reply with headers, bullets and a run of newlines, reformatted and extended
\* for a named client
C13_Witness ==
    /\ EnhancedReturned
    /\ \E i \in 1..Len(response) : response[i] = "#"
    /\ user_data = ProfileClient
    /\ reply # response
    /\ Len(reply) > Len(response)

\* a greeting into which the name was inserted
C13_Witness_Greeting ==
    /\ EnhancedReturned
    /\ StartsWith(response, GreetingHello)
    /\ StartsWith(reply, GreetingHello \o <<" ">> \o NameAsha)

(***************************************************************************)
(* Properties of concurrent sessions (checked under SpecSessions)          *)
(***************************************************************************)
\* what a session owns: its engine's memory, its logged conversation and its
\* user profile
OwnedBy(s) ==
    <<engines[sessions[s].chat_engine].memory, sessions[s].conversation,
      sessions[s].user_data>>

\* C14: with sessions running concurrently, what a session owns is changed
\* only by a step of that session's own script (a step of a script changes
\* the st.session_state of its session and of no other): a step of one
\* session leaves the memory, the logged conversation and the user profile of
\* every other session unchanged.
C14_SessionsIsolated ==
    [][\A s \in Sessions :
          OwnedBy(s)' # OwnedBy(s) =>
              /\ sessions'[s] # sessions[s]
              /\ \A t \in Sessions \ {s} : sessions'[t] = sessions[t]]_vars

\* two sessions have taken a turn each: one through the chain, with a named
\* profile, the other with a fallback reply
C14_Witness ==
    /\ OwnedBy(1)[1] # <<>>
    /\ OwnedBy(2)[1] = <<>>
    /\ sessions[1].conversation # <<>>
    /\ sessions[2].conversation # <<>>
    /\ sessions[1].user_data # sessions[2].user_data

(***************************************************************************)
(* More properties of process_user_input (checked under Spec)              *)
(***************************************************************************)
\* C15: no step of a call of process_user_input (detection, ranking, prompt
\* building and generation, enhancement, the fallback and the exception
\* paths) changes the user profile passed to the call.
C15_ProfileUnchanged ==
    [][pc # "AWAITING_INPUT" => user_data' = user_data]_vars

\* a call for a user with a profile went through build_professional_prompt
\* and enhance_response and returned
C15_Witness ==
    /\ CallEnded
    /\ EnhancedReturned
    /\ Len(stage_log) = 5
    /\ user_data = ProfileClient
    /\ prompt_log[Len(prompt_log)].user_data = ProfileClient

(***************************************************************************)
(* Properties of the classifier pass (checked under SpecDetect)            *)
(***************************************************************************)
ClassifierAnswered == detect_pc = "returned" /\ classifier_call.status = "ok"

MaxScore ==
    CHOOSE m \in {classifier_call.scores[i] : i \in 1..Len(classifier_call.scores)} :
        \A i \in 1..Len(classifier_call.scores) : classifier_call.scores[i] <= m

\* label i of the classifier's answer passes both filters
Qualifies(i) ==
    /\ classifier_call.scores[i] >= min_confidence
    /\ MaxScore - classifier_call.scores[i] <= score_margin

QualifyingLabels ==
    {classifier_call.labels[i] :
        i \in {k \in 1..Len(classifier_call.labels) : Qualifies(k)}}

ScoreOf(category) ==
    classifier_call.scores[CHOOSE i \in 1..Len(classifier_call.labels) :
                              classifier_call.labels[i] = category]

\* C16: when no keyword matches and the classifier answers with at least one
\* qualifying label, the returned categories are exactly the labels whose
\* score is at least min_confidence and at most score_margin below the
\* maximum score, each once, in descending score order.
C16_ClassifierSelection ==
    ClassifierAnswered /\ QualifyingLabels # {} =>
        /\ {detect_result.categories[i] : i \in 1..Len(detect_result.categories)}
              = QualifyingLabels
        /\ Len(detect_result.categories) = Cardinality(QualifyingLabels)
        /\ \A i, j \in 1..Len(detect_result.categories) :
              i < j => ScoreOf(detect_result.categories[i])
                          >= ScoreOf(detect_result.categories[j])

\* two labels selected with different scores, the others left out
C16_Witness ==
    /\ ClassifierAnswered
    /\ Len(detect_result.categories) = 2
    /\ classifier_call.scores[1] > classifier_call.scores[2]
    /\ Cardinality(QualifyingLabels) = 2

\* a label at or above min_confidence left out because of the margin
C16_Witness_Margin ==
    /\ ClassifierAnswered
    /\ Len(detect_result.categories) = 1
    /\ classifier_call.scores[2] >= min_confidence
    /\ ~Qualifies(2)

\* C17: when no keyword matches, the classifier answers and no label passes
\* both filters, detect_intents returns the single default category 'general
\* information about the company' with confidence 1.0 and method 'fallback'.
C17_NoSelectionFallsBack ==
    ClassifierAnswered /\ QualifyingLabels = {} =>
        /\ detect_result.categories = <<GeneralCategory>>
        /\ detect_result.confidence = FullConfidence
        /\ detect_result.method = "fallback"

(***************************************************************************)
(* Properties of the stages of a turn (checked under Spec)                 *)
(***************************************************************************)
\* how many times the current call entered a stage
TimesIn(stage) == Cardinality({i \in 1..Len(stage_log) : stage_log[i] = stage})

RankerReturned == rank_pc = "returned" /\ ~rank_result.raised

FallbackText ==
    <<"I'd be happy to help you with information about Sundew Solutions! ">>
    \o GuidanceFor(detect_result.categories[1])
    \o <<"For specific information, please contact our team at ",
         "sales@sundewsolutions.com", " or visit our website.">>

C18_Witness_Generated ==
    /\ CallEnded
    /\ RankerReturned
    /\ TimesIn("generate") = 1
    /\ TimesIn("enhance") = 1
    /\ reply # response

\* the place of a stage in the order classify, rank, generate, enhance,
\* memory-append
StagePlace(stage) ==
    CASE stage = "classify" -> 1
      [] stage = "rank" -> 2
      [] stage = "generate" -> 3
      [] stage = "enhance" -> 4
      [] stage = "memory-append" -> 5

\* C19: within a turn the stages happen in the order classify, rank,
\* generate, enhance, memory-append, each at most once and none before its
\* predecessor has finished, and between turns the orchestrator is in
\* AWAITING_INPUT with the previous turn resolved.
C19_StagesInOrder ==
    /\ \A i, j \in 1..Len(stage_log) :
          i < j => StagePlace(stage_log[i]) < StagePlace(stage_log[j])
    /\ call_outcome \in {"returned", "raised"} => pc = "AWAITING_INPUT"
    /\ pc # "AWAITING_INPUT" => call_outcome = "running"

(***************************************************************************)
(* SpecLive: the turns of Spec with the fairness the code provides.        *)
(* Detect, Retrieve and Generate complete when the classifier, the         *)
(* embedding model and the backend answer; the code makes these calls      *)
(* without a timeout and has no step that gives up waiting, so nothing     *)
(* makes those steps happen.  Enhance is the engine's own computation.     *)
(* Under [][Next]_vars the steps from ENHANCING to AWAITING_INPUT are       *)
(* exactly the Enhance steps, and Enhance is enabled in every ENHANCING    *)
(* state, so weak fairness of EnhanceReturns is weak fairness of Enhance.  *)
(***************************************************************************)
EnhanceReturns == pc = "ENHANCING" /\ pc' = "AWAITING_INPUT"

SpecLive == Init /\ [][Next]_vars /\ WF_pc(EnhanceReturns)

(***************************************************************************)
(* Property of SpecLive                                                    *)
(***************************************************************************)
\* C20: every accepted utterance eventually gets a reply: a turn that has
\* begun does not stay in a stage forever, whether or not the classifier, the
\* embedding model or the backend answers.
C20_EveryTurnResolves ==
    (pc # "AWAITING_INPUT") ~> (pc = "AWAITING_INPUT")

(***************************************************************************)
(* Further properties of process_user_input (checked under Spec)           *)
(***************************************************************************)
\* the folder a returned document was read from (file names are distinct in
\* the corpus of a session)
FolderOfDoc(doc) ==
    LET i == CHOOSE i \in 1..Len(corpus.files) : corpus.files[i].name = doc.filename
    IN  corpus.files[i].folder

DetectedFolders ==
    {category_folders(detect_result.categories[i]) :
        i \in 1..Len(detect_result.categories)}

\* C21: in every turn the folders the ranker searches are exactly the
\* configured folders of the categories detect_intents returned for the
\* utterance, in their order, and no returned document comes from the folder
\* of a category that was not detected.
C21_RankerScopedToDetected ==
    rank_pc = "returned" =>
        /\ rank_folders =
              [i \in 1..Len(detect_result.categories) |->
                  category_folders(detect_result.categories[i])]
        /\ \A n \in 1..Len(rank_result.docs) :
              FolderOfDoc(rank_result.docs[n]) \in DetectedFolders

\* a turn whose ranker returned a document while a readable document above the
\* threshold lies in the folder of a category that was not detected
C21_Witness ==
    /\ rank_pc = "returned"
    /\ rank_result.docs # <<>>
    /\ \E i \in 1..Len(corpus.files) :
          /\ corpus.files[i].status = "ok"
          /\ corpus.files[i].similarity >= min_similarity
          /\ corpus.files[i].folder \notin DetectedFolders

(***************************************************************************)
(* Further properties of rank_documents (checked under SpecRank)           *)
(***************************************************************************)
\* where a returned document was appended to results: the place of its folder
\* in the folders argument, and the place of its file in the enumeration
FolderPlace(doc) ==
    CHOOSE i \in 1..Len(rank_folders) :
        \E j \in 1..Len(corpus.files) :
            /\ corpus.files[j].name = doc.filename
            /\ corpus.files[j].folder = rank_folders[i]

FilePlace(doc) ==
    CHOOSE j \in 1..Len(corpus.files) : corpus.files[j].name = doc.filename

InsertedBefore(a, b) ==
    \/ FolderPlace(a) < FolderPlace(b)
    \/ FolderPlace(a) = FolderPlace(b) /\ FilePlace(a) < FilePlace(b)

\* C22: documents of equal similarity are returned in insertion order: the
\* order of the folders argument and, within a folder, the order in which
\* the files were enumerated.
C22_TiesKeepInsertionOrder ==
    RankReturned =>
        \A a, b \in 1..Len(rank_result.docs) :
            a < b /\ rank_result.docs[a].similarity = rank_result.docs[b].similarity
                => InsertedBefore(rank_result.docs[a], rank_result.docs[b])

\* two documents of equal similarity from different folders are returned, the
\* folders argument naming their folders in the opposite order of the
\* enumeration of the corpus, behind a document that was appended after them
C22_Witness ==
    /\ RankReturned
    /\ Len(rank_result.docs) = 3
    /\ rank_result.docs[2].similarity = rank_result.docs[3].similarity
    /\ FilePlace(rank_result.docs[3]) < FilePlace(rank_result.docs[2])
    /\ FolderPlace(rank_result.docs[2]) < FolderPlace(rank_result.docs[1])

\* two documents of equal similarity from one folder are returned
C22_Witness_SameFolder ==
    /\ RankReturned
    /\ \E a, b \in 1..Len(rank_result.docs) :
          /\ a < b
          /\ rank_result.docs[a].similarity = rank_result.docs[b].similarity
          /\ FolderPlace(rank_result.docs[a]) = FolderPlace(rank_result.docs[b])

(***************************************************************************)
(* Property of build_professional_prompt (checked under SpecPrompt)        *)
(***************************************************************************)
\* the label that opens the line of a profile field in the user-context block
ContextLabel(key) ==
    CASE key = "name" -> "- User name: "
      [] key = "email" -> "- Email domain: "
      [] key = "user_type" -> "- User type: "
      [] key = "company_size" -> "- Company size: "
      [] key = "selected_service" -> "- Interested in: "

\* the user-context block of a prompt: what stands between its heading line
\* and the blank line before the intent block (empty when there is no heading)
UserContextBlock(prompt) ==
    LET heading == PositionOf(prompt, "User Context:")
        intent == PositionOf(prompt, "Detected Intent:")
    IN  IF heading = 0 THEN <<>> ELSE SubSeq(prompt, heading + 2, intent - 3)

\* the positions at which the lines of a block begin
LineStarts(block) ==
    {i \in 1..Len(block) : i = 1 \/ block[i - 1] = Newline}

\* C23: the user-context block of the prompt has a line only for a profile
\* field that is present: an absent or empty field produces no line, every
\* line of the block is the line of a present field and has a value, and
\* without a profile the block is omitted.
C23_ContextOnlyPresentFields ==
    \A n \in 1..Len(prompt_log) :
        LET profile == prompt_log[n].user_data
            prompt == prompt_log[n].prompt
            block == UserContextBlock(prompt)
        IN  /\ profile = {} => PositionsOf(prompt, "User Context:") = {}
            /\ \A key \in ContextKeys :
                  Get(profile, key) = <<>> =>
                      PositionsOf(prompt, ContextLabel(key)) = {}
            /\ \A i \in LineStarts(block) :
                  /\ \E key \in ContextKeys :
                        block[i] = ContextLabel(key) /\ Get(profile, key) # <<>>
                  /\ i < Len(block) /\ block[i + 1] # Newline

(***************************************************************************)
(* Further properties of enhance_response (checked under SpecEnhance)      *)
(***************************************************************************)
\* the number of places at which part occurs in text
Occurrences(text, part) ==
    Cardinality({i \in 1..(Len(text) - Len(part) + 1) :
                    SubSeq(text, i, i + Len(part) - 1) = part})

\* C24: a non-empty name that does not occur (case-insensitively) in the raw
\* reply is inserted exactly once, directly after the greeting word of a
\* reply that starts with 'Hi' or 'Hello' or else as a prepended
\* 'Hi <name>! '; a name that already occurs is not inserted.
C24_NameInsertedOnce ==
    EnhancedReturned /\ Get(user_data, "name") # <<>> =>
        LET name == Get(user_data, "name")
        IN  IF ~Contains(Lower(response), Lower(name))
            THEN /\ Occurrences(reply, name) = 1
                 /\ IF StartsWith(response, GreetingHi)
                    THEN StartsWith(reply, GreetingHi \o <<" ">> \o name)
                    ELSE IF StartsWith(response, GreetingHello)
                    THEN StartsWith(reply, GreetingHello \o <<" ">> \o name)
                    ELSE StartsWith(reply, GreetingHi \o <<" ">> \o name \o <<"!">>)
            ELSE Occurrences(reply, name) = Occurrences(response, name)

\* the sentences of type-specific framing the enhancer has
FramingSentences == {ClientFraming[3], JobSeekerFraming[3]}

FramingCount(text) ==
    Cardinality({i \in 1..Len(text) : text[i] \in FramingSentences})

\* whether the keyword associated with the user type occurs in the text (the
\* types other than client and job seeker have no keyword)
TypeKeywordOccurs(user_type, text) ==
    \/ user_type = <<"potential_client">> /\ Contains(Lower(text), NeedleBusiness)
    \/ user_type = <<"job_seeker">> /\ Contains(Lower(text), NeedleCareer)

\* C25: for a known user type (client, job seeker or another) whose
\* associated keyword does not occur in the raw reply exactly one sentence of
\* type-specific framing is appended; when the keyword occurs or no user
\* type is known, none is.
C25_OneFramingSentence ==
    EnhancedReturned =>
        LET user_type == Get(user_data, "user_type")
        IN  IF user_type # <<>> /\ ~TypeKeywordOccurs(user_type, response)
            THEN FramingCount(reply) = 1
            ELSE FramingCount(reply) = 0

\* the families some detected category matches, and the first of them in the
\* priority order service, career, case-study
FamilyMatched(family) ==
    \E n \in 1..Len(detect_result.categories) :
        CASE family = "service" -> IsServiceCategory(detect_result.categories[n])
          [] family = "career" -> IsCareerCategory(detect_result.categories[n])
          [] family = "case-study" -> IsCaseCategory(detect_result.categories[n])

FirstFamilyMatched ==
    IF FamilyMatched("service") THEN "service"
    ELSE IF FamilyMatched("career") THEN "career"
    ELSE IF FamilyMatched("case-study") THEN "case-study"
    ELSE "none"

FamilyCtas(family) ==
    CASE family = "service" -> ServiceCtas
      [] family = "career" -> CareerCtas
      [] family = "case-study" -> CaseStudyCtas

\* the opening tokens of the call-to-action lines
CtaOpenings ==
    {FamilyCtas(family)[i][1] :
        family \in {"service", "career", "case-study"}, i \in 1..3}

CtaCount(text) == Cardinality({i \in 1..Len(text) : text[i] \in CtaOpenings})

\* C26: exactly one call-to-action line is appended when some detected
\* category matches a family, and it is one of the candidates of the first
\* family, in the priority order service, career, case-study, that any
\* detected category matches; when no category matches a family, none is
\* appended.
C26_OneCtaOfFirstFamily ==
    EnhancedReturned =>
        IF FirstFamilyMatched = "none" THEN CtaCount(reply) = 0
        ELSE /\ CtaCount(reply) = 1
             /\ \E i \in 1..3 :
                   Occurrences(reply, FamilyCtas(FirstFamilyMatched)[i]) = 1

\* a header ('#'..'######' followed by whitespace) or a list marker ('- ' or
\* '* ') stands at position i of the text
HeaderAt(text, i) ==
    LET hashes == RunLength(text, i, "#")
    IN  hashes \in 1..6 /\ i + hashes <= Len(text) /\ IsSpace(text[i + hashes])

ListMarkerAt(text, i) ==
    text[i] \in {"-", "*"} /\ i < Len(text) /\ text[i + 1] = " "

\* C27: every reply enhance_response returns is normalized: no leading or
\* trailing whitespace, no run of three or more newlines, and every header
\* or list marker that begins a line after the first is preceded by a blank
\* line.
C27_ReplyNormalized ==
    EnhancedReturned =>
        /\ reply # <<>> => ~IsSpace(reply[1]) /\ ~IsSpace(reply[Len(reply)])
        /\ \A i \in 1..Len(reply) : RunLength(reply, i, Newline) < 3
        /\ \A i \in 2..Len(reply) :
              reply[i - 1] = Newline /\ (HeaderAt(reply, i) \/ ListMarkerAt(reply, i))
                  => i > 2 /\ reply[i - 2] = Newline

\* C28: for an empty or whitespace-only raw reply enhance_response applies
\* formatting only: no greeting, framing, call-to-action or branding is
\* added, whatever the intent result and the profile, so the result is the
\* trimmed raw reply.
C28_EmptyReplyOnlyFormatted ==
    EnhancedReturned /\ Strip(response) = <<>> =>
        reply = format_response(response) /\ reply = Strip(response)

(***************************************************************************)
(* Properties of the stage flow and of the turn log (checked under         *)
(* SpecStages)                                                             *)
(***************************************************************************)
\* C29: after any sequence of button presses the stage chat_active is
\* reached only when a valid email address has been stored in the session's
\* user data.
C29_ChatOnlyAfterValidEmail ==
    sessions[1].chat_stage = "chat_active" =>
        validate_email(Get(sessions[1].user_data, "email"))

\* C30: counter equals the number of logged turns, the logged turns carry
\* the numbers 1..n in order, a logged turn is never modified or removed,
\* and every reply process_user_input produces in the active chat is logged
\* by exactly one add_turn together with its utterance: the log changes only
\* at the end of a script run that produced a reply, by that one turn, and
\* no such run ends without it.
C30_TurnsLoggedOnceInOrder ==
    /\ [](/\ sessions[1].counter = Len(sessions[1].conversation)
          /\ \A i \in 1..Len(sessions[1].conversation) :
                sessions[1].conversation[i].turn = i)
    /\ [][/\ sessions'[1].conversation # sessions[1].conversation =>
                /\ sessions[1].run = "logging"
                /\ sessions'[1].conversation =
                      Append(sessions[1].conversation,
                             [turn |-> Len(sessions[1].conversation) + 1,
                              bot |-> sessions[1].response,
                              user |-> sessions[1].prompt])
          /\ sessions[1].run = "logging" /\ sessions'[1].run # "logging" =>
                Len(sessions'[1].conversation) = Len(sessions[1].conversation) + 1
         ]_vars

\* two turns have been logged, the second with a reply other than the
\* first's, and New Topic has reset the chat messages since
C30_Witness ==
    /\ sessions[1].run = "idle"
    /\ Len(sessions[1].conversation) = 2
    /\ sessions[1].conversation[1].bot # sessions[1].conversation[2].bot
    /\ Len(sessions[1].messages) = 1

====
